---------------------------- MODULE Spec2Model ----------------------------
(***************************************************************************)
(* A model of the code generation utilities of OpenVDB AX                  *)
(* (src/openvdb_ax/codegen/Utils.h).                                       *)
(*                                                                         *)
(* The utilities are functions over an llvm::IRBuilder.  A call receives   *)
(* llvm values (each has an llvm type), appends instructions to the        *)
(* builder and returns a value, or throws.  The model keeps, for the call  *)
(* that ran last, its arguments, its outcome and the instructions it       *)
(* appended.  An llvm value is modelled together with the content it has   *)
(* when the generated code runs, so that what an instruction computes can  *)
(* be stated: integers are two's complement bit patterns of their width    *)
(* (the set of the positions of their 1 bits), floating point values are   *)
(* exact rationals, NaN or an infinity.                                    *)
(***************************************************************************)
EXTENDS Integers, Sequences, FiniteSets

VARIABLES
    pc,        \* "idle": no call in progress; "done": a call has returned or thrown
    op,        \* the function called last
    args,      \* its arguments
    ret,       \* its outcome: the type or value returned or the exception thrown,
               \* and the instructions it appended to the IRBuilder, in order
    warnings,  \* the content of the caller's warnings string
    ndebug,    \* TRUE iff the build compiles assert() out (NDEBUG)
    mem,       \* the arrays on the stack of the generated function: the one the
               \* caller hands in and the ones the call allocates, with the content
               \* they have when the generated code has run
    values,    \* the std::vector<llvm::Value*> the caller hands in by reference
    given,     \* mem and values as they were when the call was made
    stage,     \* where the grid comparison is: "idle", "flagging" (a DiagnosticData
               \* is being flagged), "called" (a function of it has returned),
               \* "foreach" (the leaf tasks of compareGrids run), "returned", "thrown"
    call,      \* the function of the grid comparison called last and what it was given
    diagnostic,\* the DiagnosticData the function called works on
    flagCalls, \* the indices flagVoxelTopology and flagVoxelValue were called with
    data,      \* the std::vector<DiagnosticData::Ptr> of compareGrids
    tasks,     \* for every leaf of the mask, where the task that compares it is
    local,     \* the locals result and flag of compareGrids
    pass,      \* the kernel pass of an executable: its stage ("idle", "parallel",
               \* "finished"), the kernel, the grid it was given and the pointer
               \* tables of the leaves
    volume,    \* for every origin, the leaf of the grid the pass works on, or Null
    workers    \* for every origin, the voxels the task of the leaf has yet to call
               \* the kernel for, and the voxels it has stored to

\* the state of the code generation utilities, of the grid comparison and of
\* the kernel pass
callVars == <<pc, op, args, ret, warnings, ndebug, mem, values, given>>
compareVars == <<stage, call, diagnostic, flagCalls, data, tasks, local>>
kernelVars == <<pass, volume, workers>>

vars == <<callVars, compareVars, kernelVars>>

---------------------------------------------------------------------------
(* Bounds of the sample values the calls are given.                        *)

\* integer arguments: every value in -MaxInt..MaxInt, and the two extremes of the width
MaxInt == 2

\* floating point arguments: every multiple of 1/2 in -MaxHalf/2 .. MaxHalf/2, and NaN
MaxHalf == 2

\* arrays and vectors of values have 1 to MaxLen elements
MaxLen == 2

---------------------------------------------------------------------------
(* llvm types.  The scalar types are the ones AX uses; "array" and "ptr"   *)
(* stand for the non scalar types a caller can hand in ([3 x float] and a  *)
(* pointer to it).                                                         *)

IntegerTypes == {"i1", "i8", "i16", "i32", "i64"}

FloatingPointTypes == {"float", "double"}

ScalarTypes == IntegerTypes \cup FloatingPointTypes

NonScalarTypes == {"array", "ptr"}

Types == ScalarTypes \cup NonScalarTypes

\* llvm::Type::isIntegerTy()
isIntegerTy(t) == t \in IntegerTypes

\* llvm::Type::isFloatingPointTy()
isFloatingPointTy(t) == t \in FloatingPointTypes

\* Types.h: isScalarType
isScalarType(t) == t \in ScalarTypes

\* llvm::Type::getIntegerBitWidth(); 0 for a type that is no integer
BitWidth(t) ==
    CASE t = "i1" -> 1
      [] t = "i8" -> 8
      [] t = "i16" -> 16
      [] t = "i32" -> 32
      [] t = "i64" -> 64
      [] OTHER -> 0

---------------------------------------------------------------------------
(* Arithmetic on bit patterns.  A pattern of width w is a subset of        *)
(* 0..w-1.  TLC's integers are 32 bit, so the signed value of a pattern is *)
(* computed only while its magnitude is below 2^30.                        *)

B2N(b) == IF b THEN 1 ELSE 0

\* the value of an expression, worked out once: Only({e}) is e
Only(S) == CHOOSE x \in S : TRUE

Pow2(i) == 2 ^ i

\* SVal gives a magnitude exactly up to 2^TrackedBits (TLC's integers are 32 bit)
TrackedBits == BitWidth("i32") - 2

\* the pattern of width w of the integer v, |v| <= 2^30 (two's complement)
ToBits(v, w) ==
    {i \in 0..(w - 1) :
        IF i <= TrackedBits THEN (v \div Pow2(i)) % 2 = 1 ELSE v < 0}

\* the value of bits 8j..8j+7 of s as a byte
Octet(s, j) ==
    B2N(8 * j \in s) + 2 * B2N(8 * j + 1 \in s) + 4 * B2N(8 * j + 2 \in s)
    + 8 * B2N(8 * j + 3 \in s) + 16 * B2N(8 * j + 4 \in s) + 32 * B2N(8 * j + 5 \in s)
    + 64 * B2N(8 * j + 6 \in s) + 128 * B2N(8 * j + 7 \in s)

\* the sum of 2^i over the i in s, s a subset of 0..30
SumPow2(s) == Octet(s, 0) + 256 * (Octet(s, 1) + 256 * (Octet(s, 2) + 256 * Octet(s, 3)))

\* SVal's answer for a value above 2^30 - 1, and for one below -2^30
HugePos == Pow2(TrackedBits)
HugeNeg == (0 - Pow2(TrackedBits)) - 1

\* the signed value of pattern x of width w
SVal(x, w) ==
    IF (w - 1) \in x
    THEN LET zeros == (0..(w - 2)) \ x
         IN  IF \E i \in zeros : i >= TrackedBits THEN HugeNeg
             ELSE (0 - 1) - SumPow2(zeros)
    ELSE IF \E i \in x : i >= TrackedBits THEN HugePos ELSE SumPow2(x)

\* the unsigned value of pattern x
UVal(x) == IF \E i \in x : i >= TrackedBits THEN HugePos ELSE SumPow2(x)

IntMin(w) == {w - 1}
IntMax(w) == 0..(w - 2)

---------------------------------------------------------------------------
(* llvm values.  kind says what the value holds when the code runs:        *)
(*   "int"    an integer, bits its pattern;                                *)
(*   "num"    the floating point number n/d (d > 0, lowest terms);         *)
(*   "big"    a finite floating point number of magnitude 2^30 or more,    *)
(*            negative iff neg (the result of converting a large integer); *)
(*   "inf"    an infinity, negative iff neg;  "nan"  a NaN;                *)
(*   "poison" llvm's poison value (the result of an instruction whose      *)
(*            result llvm leaves undefined for these operands);            *)
(*   "agg"    a value of a non scalar type;  "none"  no value.             *)

Val(t, k, b, neg, n, d) ==
    [type |-> t, kind |-> k, bits |-> b, neg |-> neg, n |-> n, d |-> d]

IntV(t, b) == Val(t, "int", b, FALSE, 0, 1)
NaNV(t) == Val(t, "nan", {}, FALSE, 0, 1)
InfV(t, neg) == Val(t, "inf", {}, neg, 0, 1)
BigV(t, neg) == Val(t, "big", {}, neg, 0, 1)
PoisonV(t) == Val(t, "poison", {}, FALSE, 0, 1)
AggV(t) == Val(t, "agg", {}, FALSE, 0, 1)
NoValue == Val("void", "none", {}, FALSE, 0, 1)

Abs(x) == IF x < 0 THEN 0 - x ELSE x

RECURSIVE Gcd(_, _)
Gcd(a, b) == IF b = 0 THEN a ELSE Gcd(b, a % b)

\* the floating point number n/d of type t, d # 0, in lowest terms
NumV(t, n, d) ==
    LET g == Gcd(Abs(n), Abs(d))
        s == IF d < 0 THEN 0 - 1 ELSE 1
    IN  Val(t, "num", {}, FALSE, (s * n) \div g, (s * d) \div g)

\* the sample arguments
IntSamples(t) ==
    LET w == BitWidth(t)
    IN  IF w = 1 THEN {IntV(t, {}), IntV(t, {0})}
        ELSE {IntV(t, ToBits(v, w)) : v \in (0 - MaxInt)..MaxInt}
             \cup {IntV(t, IntMin(w)), IntV(t, IntMax(w))}

FpSamples(t) == {NumV(t, h, 2) : h \in (0 - MaxHalf)..MaxHalf} \cup {NaNV(t)}

Values ==
    UNION {IntSamples(t) : t \in IntegerTypes}
    \cup UNION {FpSamples(t) : t \in FloatingPointTypes}
    \cup {AggV(t) : t \in NonScalarTypes}

---------------------------------------------------------------------------
(* Outcomes of a call: it returns ("ok"), throws an exception ("throw") or *)
(* stops the process on a failed assert ("abort").  type is the llvm type  *)
(* returned (the type of val when a value is returned), fn the IRBuilder   *)
(* member returned (a CastFunction or BinaryFunction), code the            *)
(* instructions the call appended to the builder.                          *)

Outcome(st, e, t, v, f, c) ==
    [status |-> st, exc |-> e, type |-> t, val |-> v, fn |-> f, code |-> c]

ReturnType(t) == Outcome("ok", "", t, NoValue, "", <<>>)
ReturnValue(v, c) == Outcome("ok", "", v.type, v, "", c)
ReturnFunction(f) == Outcome("ok", "", "void", NoValue, f, <<>>)
Throw(e, c) == Outcome("throw", e, "void", NoValue, "", c)
AssertFailed == Outcome("abort", "assert", "void", NoValue, "", <<>>)
NoOutcome == Outcome("none", "", "void", NoValue, "", <<>>)

\* an instruction: the IRBuilder member that created it, its operands, its result
Instr(f, x, y, r) == [create |-> f, x |-> x, y |-> y, result |-> r]

---------------------------------------------------------------------------
(* typePrecedence (Utils.h 175-215)                                        *)

\* lines 187-214: the first of the tests that holds decides
highestOrderType(typeA, typeB) ==
    IF typeA = "double" THEN ReturnType(typeA)
    ELSE IF typeB = "double" THEN ReturnType(typeB)
    ELSE IF typeA = "float" THEN ReturnType(typeA)
    ELSE IF typeB = "float" THEN ReturnType(typeB)
    ELSE IF typeA = "i64" THEN ReturnType(typeA)
    ELSE IF typeB = "i64" THEN ReturnType(typeB)
    ELSE IF typeA = "i32" THEN ReturnType(typeA)
    ELSE IF typeB = "i32" THEN ReturnType(typeB)
    ELSE IF typeA = "i16" THEN ReturnType(typeA)
    ELSE IF typeB = "i16" THEN ReturnType(typeB)
    ELSE IF typeA = "i8" THEN ReturnType(typeA)
    ELSE IF typeB = "i8" THEN ReturnType(typeB)
    ELSE IF typeA = "i1" THEN ReturnType(typeA)
    ELSE IF typeB = "i1" THEN ReturnType(typeB)
    ELSE Throw("LLVMTypeError", <<>>)

\* typePrecedence with the i64 tests moved in front of the float tests
typePrecedenceIntegerFirst(typeA, typeB) ==
    IF ~ndebug /\ ~(isScalarType(typeA) /\ isScalarType(typeB)) THEN AssertFailed
    ELSE IF typeA = "double" \/ typeB = "double" THEN ReturnType("double")
    ELSE IF typeA = "i64" \/ typeB = "i64" THEN ReturnType("i64")
    ELSE highestOrderType(typeA, typeB)

\* typePrecedence with the i64 test of typeB testing typeA again
typePrecedenceFirstTwice(typeA, typeB) ==
    IF ~ndebug /\ ~(isScalarType(typeA) /\ isScalarType(typeB)) THEN AssertFailed
    ELSE IF typeB = "i64" /\ typeA \in {"i32", "i16", "i8", "i1"}
    THEN highestOrderType(typeA, typeA)
    ELSE highestOrderType(typeA, typeB)

typePrecedence(typeA, typeB) ==
    IF ~ndebug /\ ~(isScalarType(typeA) /\ isScalarType(typeB)) THEN AssertFailed
    ELSE highestOrderType(typeA, typeB)

---------------------------------------------------------------------------
(* llvmArithmeticConversion (Utils.h 226-305): the IRBuilder member that   *)
(* converts sourceType to targetType, bound as a CastFunction.             *)

CastFunctions ==
    {"CreateFPExt", "CreateFPTrunc", "CreateSIToFP", "CreateUIToFP", "CreateFPToSI",
     "CreateFPToUI", "CreateSExt", "CreateZExt", "CreateTrunc"}

\* no branch of lines 239-294 returns
NoCast == "none"

\* lines 239-294: the cast the branches select
selectCast(sourceType, targetType) ==
    CASE targetType = "double" ->
           (CASE sourceType = "float" -> "CreateFPExt"
              [] sourceType \in {"i64", "i32", "i16", "i8"} -> "CreateSIToFP"
              [] sourceType = "i1" -> "CreateUIToFP"
              [] OTHER -> NoCast)
      [] targetType = "float" ->
           (CASE sourceType = "double" -> "CreateFPTrunc"
              [] sourceType \in {"i64", "i32", "i16", "i8"} -> "CreateSIToFP"
              [] sourceType = "i1" -> "CreateUIToFP"
              [] OTHER -> NoCast)
      [] targetType = "i64" ->
           (CASE sourceType \in {"double", "float"} -> "CreateFPToSI"
              [] sourceType \in {"i32", "i16", "i8"} -> "CreateSExt"
              [] sourceType = "i1" -> "CreateZExt"
              [] OTHER -> NoCast)
      [] targetType = "i32" ->
           (CASE sourceType \in {"double", "float"} -> "CreateFPToSI"
              [] sourceType = "i64" -> "CreateTrunc"
              [] sourceType \in {"i16", "i8"} -> "CreateSExt"
              [] sourceType = "i1" -> "CreateZExt"
              [] OTHER -> NoCast)
      [] targetType = "i16" ->
           (CASE sourceType \in {"double", "float"} -> "CreateFPToSI"
              [] sourceType \in {"i64", "i32"} -> "CreateTrunc"
              [] sourceType = "i8" -> "CreateSExt"
              [] sourceType = "i1" -> "CreateZExt"
              [] OTHER -> NoCast)
      [] targetType = "i8" ->
           (CASE sourceType \in {"double", "float"} -> "CreateFPToSI"
              [] sourceType \in {"i64", "i32", "i16"} -> "CreateTrunc"
              [] sourceType = "i1" -> "CreateZExt"
              [] OTHER -> NoCast)
      [] targetType = "i1" ->
           (CASE sourceType \in {"double", "float"} -> "CreateFPToUI"
              [] sourceType \in {"i64", "i32", "i16", "i8"} -> "CreateTrunc"
              [] OTHER -> NoCast)
      [] OTHER -> NoCast

\* llvmArithmeticConversion with the i1 sources sign extended like the other integers
llvmArithmeticConversionSExtBool(sourceType, targetType) ==
    LET cast == selectCast(sourceType, targetType)
    IN  IF cast = NoCast THEN Throw("LLVMTypeError", <<>>)
        ELSE IF cast = "CreateZExt" THEN ReturnFunction("CreateSExt")
        ELSE ReturnFunction(cast)

\* llvmArithmeticConversion with every integer source zero extended
llvmArithmeticConversionZExt(sourceType, targetType) ==
    LET cast == selectCast(sourceType, targetType)
    IN  IF cast = NoCast THEN Throw("LLVMTypeError", <<>>)
        ELSE IF cast = "CreateSExt" THEN ReturnFunction("CreateZExt")
        ELSE ReturnFunction(cast)

llvmArithmeticConversion(sourceType, targetType) ==
    LET cast == selectCast(sourceType, targetType)
    IN  IF cast = NoCast THEN Throw("LLVMTypeError", <<>>) ELSE ReturnFunction(cast)

---------------------------------------------------------------------------
(* What the conversion instructions compute (llvm's language reference).   *)

\* n/d rounded toward zero
TruncToZero(n, d) == IF n < 0 THEN 0 - ((0 - n) \div d) ELSE n \div d

FitsSigned(q, w) ==
    w > TrackedBits \/ (q >= 0 - Pow2(w - 1) /\ q < Pow2(w - 1))

FitsUnsigned(q, w) == q >= 0 /\ (w > TrackedBits \/ q < Pow2(w))

\* the integer of pattern b as a floating point number of type t
IntToFp(s, t) ==
    IF s = HugePos THEN BigV(t, FALSE)
    ELSE IF s = HugeNeg THEN BigV(t, TRUE)
    ELSE NumV(t, s, 1)

\* the cast function f applied to value, giving a value of type targetType
ApplyCast(f, value, targetType) ==
    LET w == BitWidth(targetType)
        q == TruncToZero(value.n, value.d)
    IN  CASE value.kind = "poison" -> PoisonV(targetType)
          [] f \in {"CreateFPExt", "CreateFPTrunc"} /\ value.kind # "poison" ->
               [value EXCEPT !.type = targetType]
          [] f = "CreateSIToFP" /\ value.kind = "int" ->
               IntToFp(SVal(value.bits, BitWidth(value.type)), targetType)
          [] f = "CreateUIToFP" /\ value.kind = "int" ->
               IntToFp(UVal(value.bits), targetType)
          [] f = "CreateFPToSI" /\ value.kind = "num" ->
               IF FitsSigned(q, w) THEN IntV(targetType, ToBits(q, w))
               ELSE PoisonV(targetType)
          [] f = "CreateFPToUI" /\ value.kind = "num" ->
               IF FitsUnsigned(q, w) THEN IntV(targetType, ToBits(q, w))
               ELSE PoisonV(targetType)
          [] f = "CreateSExt" /\ value.kind = "int" ->
               LET from == BitWidth(value.type)
               IN  IntV(targetType,
                        IF (from - 1) \in value.bits
                        THEN value.bits \cup (from..(w - 1))
                        ELSE value.bits)
          [] f = "CreateZExt" /\ value.kind = "int" -> IntV(targetType, value.bits)
          [] f = "CreateTrunc" /\ value.kind = "int" ->
               IntV(targetType, value.bits \cap (0..(w - 1)))
          [] OTHER -> PoisonV(targetType)  \* NaN or an infinity to an integer

---------------------------------------------------------------------------
(* arithmeticConversion(value, targetType, builder) (Utils.h 424-439)      *)

\* arithmeticConversion without the return of line 435
arithmeticConversionAlwaysCasts(value, targetType) ==
    IF ~ndebug /\ ~(isIntegerTy(value.type) \/ isFloatingPointTy(value.type)) THEN AssertFailed
    ELSE IF ~ndebug /\ ~(isIntegerTy(targetType) \/ isFloatingPointTy(targetType)) THEN AssertFailed
    ELSE LET llvmCastFunction == llvmArithmeticConversion(value.type, targetType)
         IN  IF llvmCastFunction.status # "ok" THEN llvmCastFunction
             ELSE LET r == ApplyCast(llvmCastFunction.fn, value, targetType)
                  IN  ReturnValue(r, <<Instr(llvmCastFunction.fn, value, NoValue, r)>>)

arithmeticConversion(value, targetType) ==
    IF ~ndebug /\ ~(isIntegerTy(value.type) \/ isFloatingPointTy(value.type)) THEN AssertFailed
    ELSE IF ~ndebug /\ ~(isIntegerTy(targetType) \/ isFloatingPointTy(targetType)) THEN AssertFailed
    ELSE IF value.type = targetType THEN ReturnValue(value, <<>>)
    ELSE LET llvmCastFunction == llvmArithmeticConversion(value.type, targetType)
         IN  IF llvmCastFunction.status # "ok" THEN llvmCastFunction
             ELSE LET r == ApplyCast(llvmCastFunction.fn, value, targetType)
                  IN  ReturnValue(r, <<Instr(llvmCastFunction.fn, value, NoValue, r)>>)

---------------------------------------------------------------------------
(* boolComparison (Utils.h 564-579)                                        *)

Bool(b) == IntV("i1", IF b THEN {0} ELSE {})

\* fcmp one: ordered and not equal
FCmpONE(x, y) ==
    IF x.kind = "poison" \/ y.kind = "poison" THEN PoisonV("i1")
    ELSE Bool(x.kind # "nan" /\ y.kind # "nan"
              /\ <<x.kind, x.neg, x.n, x.d>> # <<y.kind, y.neg, y.n, y.d>>)

ICmpNE(x, y) ==
    IF x.kind = "poison" \/ y.kind = "poison" THEN PoisonV("i1")
    ELSE Bool(x.bits # y.bits)

\* fcmp une: unordered or not equal
FCmpUNE(x, y) ==
    IF x.kind = "poison" \/ y.kind = "poison" THEN PoisonV("i1")
    ELSE Bool(x.kind = "nan" \/ y.kind = "nan"
              \/ <<x.kind, x.neg, x.n, x.d>> # <<y.kind, y.neg, y.n, y.d>>)

\* boolComparison with the unordered comparison for floating point values
boolComparisonUnordered(value) ==
    LET type == value.type
    IN  IF isFloatingPointTy(type)
        THEN LET zero == NumV(type, 0, 1)
                 r == FCmpUNE(value, zero)
             IN  ReturnValue(r, <<Instr("CreateFCmpUNE", value, zero, r)>>)
        ELSE IF isIntegerTy(type)
        THEN LET zero == IntV(type, ToBits(0, BitWidth(type)))
                 r == ICmpNE(value, zero)
             IN  ReturnValue(r, <<Instr("CreateICmpNE", value, zero, r)>>)
        ELSE Throw("LLVMTypeError", <<>>)

boolComparison(value) ==
    LET type == value.type
    IN  IF isFloatingPointTy(type)
        THEN LET zero == NumV(type, 0, 1)
                 r == FCmpONE(value, zero)
             IN  ReturnValue(r, <<Instr("CreateFCmpONE", value, zero, r)>>)
        ELSE IF type = "i1"
        THEN LET zero == IntV(type, {})
                 r == ICmpNE(value, zero)
             IN  ReturnValue(r, <<Instr("CreateICmpNE", value, zero, r)>>)
        ELSE IF isIntegerTy(type)
        THEN LET zero == IntV(type, ToBits(0, BitWidth(type)))
                 r == ICmpNE(value, zero)
             IN  ReturnValue(r, <<Instr("CreateICmpNE", value, zero, r)>>)
        ELSE Throw("LLVMTypeError", <<>>)

---------------------------------------------------------------------------
(* Two's complement arithmetic on bit patterns of width w.  Sums, products *)
(* and quotients are computed on the pattern's bytes (its limbs, least     *)
(* significant first), as a processor does on words.                       *)

\* the number of limbs of a pattern of width w
NLimbs(w) == (w + 7) \div 8

\* limb j (from 0) of pattern x
LimbOf(x, j) == SumPow2({i - 8 * j : i \in x \cap ((8 * j)..(8 * j + 7))})

ToLimbs(x, w) == SubSeq([j \in 1..NLimbs(w) |-> LimbOf(x, j - 1)], 1, NLimbs(w))

\* the pattern of width w of the limbs l: the bits above w are dropped
FromLimbs(l, w) == {i \in 0..(w - 1) : (l[(i \div 8) + 1] \div Pow2(i % 8)) % 2 = 1}

\* the carry into limb j of a + b + c, c the carry into limb 1 (0 or 1): a limb
\* below j overflows, or takes the carry c in, and the limbs between pass it on
CarryIn(a, b, c, j) ==
    B2N(\/ \E k \in 1..(j - 1) :
              /\ a[k] + b[k] > 255
              /\ \A m \in (k + 1)..(j - 1) : a[m] + b[m] >= 255
        \/ c = 1 /\ \A m \in 1..(j - 1) : a[m] + b[m] >= 255)

\* a + b + c, the limbs from limb j, the carry out of the last limb dropped
AddLimbs(a, b, c, j) ==
    SubSeq([k \in 1..Len(a) |-> (a[k] + b[k] + CarryIn(a, b, c, k)) % 256], j, Len(a))

NotLimbs(a) == SubSeq([j \in 1..Len(a) |-> 255 - a[j]], 1, Len(a))

SubLimbs(a, b) == AddLimbs(a, NotLimbs(b), 1, 1)

\* a < b as unsigned integers, comparing from limb j downwards
RECURSIVE LessLimbs(_, _, _)
LessLimbs(a, b, j) ==
    IF j = 0 THEN FALSE
    ELSE IF a[j] # b[j] THEN a[j] < b[j]
    ELSE LessLimbs(a, b, j - 1)

\* a[i + 1] * b[k - i + 1] if that is a term of column k of the product
Term(a, b, k, i) == IF i <= k THEN a[i + 1] * b[k - i + 1] ELSE 0

\* the sum of a[i + 1] * b[k - i + 1] for i in 0..k: column k of the product of
\* patterns of up to 8 limbs
Column(a, b, k) ==
    Term(a, b, k, 0) + Term(a, b, k, 1) + Term(a, b, k, 2) + Term(a, b, k, 3)
    + Term(a, b, k, 4) + Term(a, b, k, 5) + Term(a, b, k, 6) + Term(a, b, k, 7)

\* the column sums s of the product so far with the next column's: its terms and
\* what the column before carries over
NextColumn(a, b, s) ==
    IF Len(s) >= Len(a) THEN s
    ELSE Append(s, Column(a, b, Len(s)) + (IF s = <<>> THEN 0 ELSE s[Len(s)] \div 256))

\* a * b + c column by column, the limbs above the last dropped (up to 8 limbs)
MulLimbs(a, b, c) ==
    CHOOSE l \in {SubSeq([j \in 1..Len(a) |-> s8[j] % 256], 1, Len(a)) :
                  s8 \in {NextColumn(a, b, s7) :
                  s7 \in {NextColumn(a, b, s6) :
                  s6 \in {NextColumn(a, b, s5) :
                  s5 \in {NextColumn(a, b, s4) :
                  s4 \in {NextColumn(a, b, s3) :
                  s3 \in {NextColumn(a, b, s2) :
                  s2 \in {NextColumn(a, b, s1) :
                  s1 \in {<<Column(a, b, 0) + c>>}}}}}}}}} : TRUE

AddBits(x, y, w) ==
    Only({FromLimbs(l, w) : l \in {AddLimbs(a, b, 0, 1) : a \in {ToLimbs(x, w)}, b \in {ToLimbs(y, w)}}})

SubBits(x, y, w) ==
    Only({FromLimbs(l, w) : l \in {SubLimbs(a, b) : a \in {ToLimbs(x, w)}, b \in {ToLimbs(y, w)}}})

NegBits(x, w) == SubBits({}, x, w)

MulBits(x, y, w) ==
    Only({FromLimbs(l, w) : l \in {MulLimbs(a, b, 0) : a \in {ToLimbs(x, w)}, b \in {ToLimbs(y, w)}}})

MaxOf(s) == CHOOSE m \in s : \A k \in s : k <= m

\* x < y as unsigned integers
ULess(x, y) == x # y /\ MaxOf((x \ y) \cup (y \ x)) \in y

\* x < y as signed integers of width w
SLess(x, y, w) ==
    IF ((w - 1) \in x) # ((w - 1) \in y) THEN (w - 1) \in x ELSE ULess(x, y)

\* one step of unsigned long division of pattern x by the limbs y # 0: bit i of
\* x is shifted into the remainder; qr is <<quotient's bits, remainder's limbs>>.
\* No step is left below bit lo.
UDivStep(x, y, i, lo, qr) ==
    IF i < lo THEN qr
    ELSE CHOOSE s \in {IF LessLimbs(r1, y, Len(y)) THEN <<qr[1], r1>>
                       ELSE <<qr[1] \cup {i}, SubLimbs(r1, y)>> :
                       r1 \in {AddLimbs(qr[2], qr[2], B2N(i \in x), 1)}} : TRUE

\* the steps for bits hi down to lo: four at most one after the other, more of
\* them a quarter at a time (the evaluation stays shallow)
RECURSIVE UDivFrom(_, _, _, _, _)
UDivFrom(x, y, hi, lo, qr) ==
    IF hi - lo < 4
    THEN CHOOSE s \in {UDivStep(x, y, hi - 3, lo, d) :
                       d \in {UDivStep(x, y, hi - 2, lo, c) :
                       c \in {UDivStep(x, y, hi - 1, lo, b) :
                       b \in {UDivStep(x, y, hi, lo, qr)}}}} : TRUE
    ELSE LET q == (hi - lo + 4) \div 4
             lo3 == IF hi - 3 * q + 1 < lo THEN lo ELSE hi - 3 * q + 1
         IN  CHOOSE s \in {UDivFrom(x, y, hi - 3 * q, lo, d) :
                           d \in {UDivFrom(x, y, hi - 2 * q, lo3, c) :
                           c \in {UDivFrom(x, y, hi - q, hi - 2 * q + 1, b) :
                           b \in {UDivFrom(x, y, hi, hi - q + 1, qr)}}}} : TRUE

\* <<quotient, remainder>> of the unsigned patterns x and y # {}, as patterns
UDivMod(x, y, w) ==
    LET top == IF x = {} THEN 0 ELSE MaxOf(x)  \* the bits above are 0: so is the quotient's
    IN  Only({<<qr[1], FromLimbs(qr[2], w)>> :
              qr \in {UDivFrom(x, l, top, 0, <<{}, ToLimbs({}, w)>>) : l \in {ToLimbs(y, w)}}})

\* the magnitude of the signed integer x (of IntMin: IntMin, read unsigned)
MagBits(x, w) == IF (w - 1) \in x THEN NegBits(x, w) ELSE x

\* signed division rounding toward zero, y # 0 and not IntMin / -1
SDivBits(x, y, w) ==
    Only({IF ((w - 1) \in x) # ((w - 1) \in y) THEN NegBits(qr[1], w) ELSE qr[1] :
          qr \in {UDivMod(mx, my, w) : mx \in {MagBits(x, w)}, my \in {MagBits(y, w)}}})

\* signed remainder, the sign of the dividend
SRemBits(x, y, w) ==
    Only({IF (w - 1) \in x THEN NegBits(qr[2], w) ELSE qr[2] :
          qr \in {UDivMod(mx, my, w) : mx \in {MagBits(x, w)}, my \in {MagBits(y, w)}}})

---------------------------------------------------------------------------
(* Operator tokens (ast/Tokens.h).                                         *)

ArithmeticTokens == {"PLUS", "MINUS", "MULTIPLY", "DIVIDE", "MODULO"}
LogicalTokens == {"AND", "OR"}
RelationalTokens ==
    {"EQUALSEQUALS", "NOTEQUALS", "MORETHAN", "LESSTHAN", "MORETHANOREQUAL",
     "LESSTHANOREQUAL"}
BitwiseTokens == {"BITAND", "BITOR", "BITXOR"}

Tokens == ArithmeticTokens \cup LogicalTokens \cup RelationalTokens \cup BitwiseTokens

\* ast::tokens::operatorType
operatorType(token) ==
    CASE token \in ArithmeticTokens -> "ARITHMETIC"
      [] token \in LogicalTokens -> "LOGICAL"
      [] token \in RelationalTokens -> "RELATIONAL"
      [] token \in BitwiseTokens -> "BITWISE"
      [] OTHER -> "UNKNOWN_OPERATOR"

---------------------------------------------------------------------------
(* llvmBinaryConversion (Utils.h 321-415): the IRBuilder member that       *)
(* performs the operation of token on two values of type, bound as a       *)
(* BinaryFunction.                                                         *)

\* fpBinaryFunction with the unordered predicates for == and !=
fpBinaryFunctionUnordered(token) ==
    CASE token = "PLUS" -> ReturnFunction("CreateFAdd")
      [] token = "MINUS" -> ReturnFunction("CreateFSub")
      [] token = "MULTIPLY" -> ReturnFunction("CreateFMul")
      [] token = "DIVIDE" -> ReturnFunction("CreateFDiv")
      [] token = "MODULO" -> ReturnFunction("CreateFRem")
      [] token = "EQUALSEQUALS" -> ReturnFunction("CreateFCmpUEQ")
      [] token = "NOTEQUALS" -> ReturnFunction("CreateFCmpUNE")
      [] token = "MORETHAN" -> ReturnFunction("CreateFCmpOGT")
      [] token = "LESSTHAN" -> ReturnFunction("CreateFCmpOLT")
      [] token = "MORETHANOREQUAL" -> ReturnFunction("CreateFCmpOGE")
      [] token = "LESSTHANOREQUAL" -> ReturnFunction("CreateFCmpOLE")
      [] OTHER -> Throw("LLVMTokenError", <<>>)

\* lines 365-377: the floating point operation of a token
fpBinaryFunction(token) ==
    CASE token = "PLUS" -> ReturnFunction("CreateFAdd")
      [] token = "MINUS" -> ReturnFunction("CreateFSub")
      [] token = "MULTIPLY" -> ReturnFunction("CreateFMul")
      [] token = "DIVIDE" -> ReturnFunction("CreateFDiv")
      [] token = "MODULO" -> ReturnFunction("CreateFRem")
      [] token = "EQUALSEQUALS" -> ReturnFunction("CreateFCmpOEQ")
      [] token = "NOTEQUALS" -> ReturnFunction("CreateFCmpONE")
      [] token = "MORETHAN" -> ReturnFunction("CreateFCmpOGT")
      [] token = "LESSTHAN" -> ReturnFunction("CreateFCmpOLT")
      [] token = "MORETHANOREQUAL" -> ReturnFunction("CreateFCmpOGE")
      [] token = "LESSTHANOREQUAL" -> ReturnFunction("CreateFCmpOLE")
      [] OTHER -> Throw("LLVMTokenError", <<>>)

\* the integer operations of lines 389-401, the same in every variant
intLogicalFunction(token) ==
    CASE token = "EQUALSEQUALS" -> ReturnFunction("CreateICmpEQ")
      [] token = "NOTEQUALS" -> ReturnFunction("CreateICmpNE")
      [] token = "AND" -> ReturnFunction("CreateAnd")
      [] token = "OR" -> ReturnFunction("CreateOr")
      [] token = "BITAND" -> ReturnFunction("CreateAnd")
      [] token = "BITOR" -> ReturnFunction("CreateOr")
      [] token = "BITXOR" -> ReturnFunction("CreateXor")
      [] OTHER -> Throw("LLVMTokenError", <<>>)

\* intBinaryFunction with the unsigned division, remainder and comparisons
intBinaryFunctionUnsigned(token) ==
    CASE token = "PLUS" -> ReturnFunction("CreateAdd")
      [] token = "MINUS" -> ReturnFunction("CreateSub")
      [] token = "MULTIPLY" -> ReturnFunction("CreateMul")
      [] token = "DIVIDE" -> ReturnFunction("CreateUDiv")
      [] token = "MODULO" -> ReturnFunction("CreateURem")
      [] token = "MORETHAN" -> ReturnFunction("CreateICmpUGT")
      [] token = "LESSTHAN" -> ReturnFunction("CreateICmpULT")
      [] token = "MORETHANOREQUAL" -> ReturnFunction("CreateICmpUGE")
      [] token = "LESSTHANOREQUAL" -> ReturnFunction("CreateICmpULE")
      [] OTHER -> intLogicalFunction(token)

\* intBinaryFunction with the no signed wrap flag set for + and -
intBinaryFunctionNoWrap(token) ==
    CASE token = "PLUS" -> ReturnFunction("CreateNSWAdd")
      [] token = "MINUS" -> ReturnFunction("CreateNSWSub")
      [] token = "MULTIPLY" -> ReturnFunction("CreateMul")
      [] token = "DIVIDE" -> ReturnFunction("CreateSDiv")
      [] token = "MODULO" -> ReturnFunction("CreateSRem")
      [] token = "MORETHAN" -> ReturnFunction("CreateICmpSGT")
      [] token = "LESSTHAN" -> ReturnFunction("CreateICmpSLT")
      [] token = "MORETHANOREQUAL" -> ReturnFunction("CreateICmpSGE")
      [] token = "LESSTHANOREQUAL" -> ReturnFunction("CreateICmpSLE")
      [] OTHER -> intLogicalFunction(token)

\* lines 380-401: the integer operation of a token
intBinaryFunction(token) ==
    CASE token = "PLUS" -> ReturnFunction("CreateAdd")
      [] token = "MINUS" -> ReturnFunction("CreateSub")
      [] token = "MULTIPLY" -> ReturnFunction("CreateMul")
      [] token = "DIVIDE" -> ReturnFunction("CreateSDiv")
      [] token = "MODULO" -> ReturnFunction("CreateSRem")
      [] token = "EQUALSEQUALS" -> ReturnFunction("CreateICmpEQ")
      [] token = "NOTEQUALS" -> ReturnFunction("CreateICmpNE")
      [] token = "MORETHAN" -> ReturnFunction("CreateICmpSGT")
      [] token = "LESSTHAN" -> ReturnFunction("CreateICmpSLT")
      [] token = "MORETHANOREQUAL" -> ReturnFunction("CreateICmpSGE")
      [] token = "LESSTHANOREQUAL" -> ReturnFunction("CreateICmpSLE")
      [] token = "AND" -> ReturnFunction("CreateAnd")
      [] token = "OR" -> ReturnFunction("CreateOr")
      [] token = "BITAND" -> ReturnFunction("CreateAnd")
      [] token = "BITOR" -> ReturnFunction("CreateOr")
      [] token = "BITXOR" -> ReturnFunction("CreateXor")
      [] OTHER -> Throw("LLVMTokenError", <<>>)

\* llvmBinaryConversion with the test of lines 357-362 only for the bitwise operators
llvmBinaryConversionBitwiseOnly(type, token) ==
    IF isFloatingPointTy(type)
    THEN IF operatorType(token) = "BITWISE"
         THEN Throw("LLVMBinaryOperationError", <<>>)
         ELSE fpBinaryFunction(token)
    ELSE IF isIntegerTy(type) THEN intBinaryFunction(token)
    ELSE Throw("LLVMTypeError", <<>>)

llvmBinaryConversion(type, token) ==
    IF isFloatingPointTy(type)
    THEN LET opType == operatorType(token)
         IN  IF opType = "LOGICAL" \/ opType = "BITWISE"
             THEN Throw("LLVMBinaryOperationError", <<>>)
             ELSE fpBinaryFunction(token)
    ELSE IF isIntegerTy(type) THEN intBinaryFunction(token)
    ELSE Throw("LLVMTypeError", <<>>)

---------------------------------------------------------------------------
(* What the binary instructions compute (llvm's language reference).  The  *)
(* floating point operations are exact here: rounding is not modelled.     *)
(* "poison" also stands for llvm's undefined behaviour (sdiv and srem by   *)
(* zero or overflowing): no result can be relied on.                       *)

RatLess(x, y) == x.n * y.d < y.n * x.d

RatEq(x, y) == x.n = y.n /\ x.d = y.d

ApplyIntBinary(f, lhs, rhs) ==
    LET t == lhs.type
        w == BitWidth(t)
        x == lhs.bits
        y == rhs.bits
    IN  CASE f = "CreateAdd" -> IntV(t, AddBits(x, y, w))
          [] f = "CreateSub" -> IntV(t, SubBits(x, y, w))
          [] f = "CreateMul" -> IntV(t, MulBits(x, y, w))
          [] f = "CreateSDiv" ->
               IF y = {} \/ (x = IntMin(w) /\ y = 0..(w - 1)) THEN PoisonV(t)
               ELSE IntV(t, SDivBits(x, y, w))
          [] f = "CreateSRem" ->
               IF y = {} \/ (x = IntMin(w) /\ y = 0..(w - 1)) THEN PoisonV(t)
               ELSE IntV(t, SRemBits(x, y, w))
          [] f = "CreateICmpEQ" -> Bool(x = y)
          [] f = "CreateICmpNE" -> Bool(x # y)
          [] f = "CreateICmpSGT" -> Bool(SLess(y, x, w))
          [] f = "CreateICmpSLT" -> Bool(SLess(x, y, w))
          [] f = "CreateICmpSGE" -> Bool(~SLess(x, y, w))
          [] f = "CreateICmpSLE" -> Bool(~SLess(y, x, w))
          [] f = "CreateAnd" -> IntV(t, x \cap y)
          [] f = "CreateOr" -> IntV(t, x \cup y)
          [] f = "CreateXor" -> IntV(t, (x \ y) \cup (y \ x))
          [] f = "CreateUDiv" -> IF y = {} THEN PoisonV(t) ELSE IntV(t, UDivMod(x, y, w)[1])
          [] f = "CreateURem" -> IF y = {} THEN PoisonV(t) ELSE IntV(t, UDivMod(x, y, w)[2])
          [] f = "CreateICmpUGT" -> Bool(ULess(y, x))
          [] f = "CreateICmpULT" -> Bool(ULess(x, y))
          [] f = "CreateICmpUGE" -> Bool(~ULess(x, y))
          [] f = "CreateICmpULE" -> Bool(~ULess(y, x))
          [] f = "CreateNSWAdd" ->
               LET sum == AddBits(x, y, w)
               IN  IF ((w - 1) \in x) = ((w - 1) \in y) /\ ((w - 1) \in sum) # ((w - 1) \in x)
                   THEN PoisonV(t) ELSE IntV(t, sum)
          [] f = "CreateNSWSub" ->
               LET diff == SubBits(x, y, w)
               IN  IF ((w - 1) \in x) # ((w - 1) \in y) /\ ((w - 1) \in diff) # ((w - 1) \in x)
                   THEN PoisonV(t) ELSE IntV(t, diff)
          [] OTHER -> PoisonV(t)

ApplyFpBinary(f, lhs, rhs) ==
    LET t == lhs.type
        nan == lhs.kind = "nan" \/ rhs.kind = "nan"
        q == TruncToZero(IF rhs.n < 0 THEN 0 - (lhs.n * rhs.d) ELSE lhs.n * rhs.d,
                         lhs.d * Abs(rhs.n))
    IN  CASE f = "CreateFCmpOEQ" -> Bool(~nan /\ RatEq(lhs, rhs))
          [] f = "CreateFCmpONE" -> Bool(~nan /\ ~RatEq(lhs, rhs))
          [] f = "CreateFCmpOGT" -> Bool(~nan /\ RatLess(rhs, lhs))
          [] f = "CreateFCmpOLT" -> Bool(~nan /\ RatLess(lhs, rhs))
          [] f = "CreateFCmpOGE" -> Bool(~nan /\ ~RatLess(lhs, rhs))
          [] f = "CreateFCmpOLE" -> Bool(~nan /\ ~RatLess(rhs, lhs))
          [] f = "CreateFCmpUEQ" -> Bool(nan \/ RatEq(lhs, rhs))
          [] f = "CreateFCmpUNE" -> Bool(nan \/ ~RatEq(lhs, rhs))
          [] f \in {"CreateFAdd", "CreateFSub", "CreateFMul", "CreateFDiv", "CreateFRem"}
             /\ nan -> NaNV(t)
          [] f = "CreateFAdd" /\ ~nan -> NumV(t, lhs.n * rhs.d + rhs.n * lhs.d, lhs.d * rhs.d)
          [] f = "CreateFSub" /\ ~nan -> NumV(t, lhs.n * rhs.d - rhs.n * lhs.d, lhs.d * rhs.d)
          [] f = "CreateFMul" /\ ~nan -> NumV(t, lhs.n * rhs.n, lhs.d * rhs.d)
          [] f = "CreateFDiv" /\ ~nan ->
               IF rhs.n # 0 THEN NumV(t, lhs.n * rhs.d, lhs.d * rhs.n)
               ELSE IF lhs.n = 0 THEN NaNV(t) ELSE InfV(t, lhs.n < 0)
          [] f = "CreateFRem" /\ ~nan ->
               IF rhs.n = 0 THEN NaNV(t)
               ELSE NumV(t, lhs.n * rhs.d - q * rhs.n * lhs.d, lhs.d * rhs.d)
          [] OTHER -> PoisonV(t)

\* the binary function f applied to two values of one scalar type
ApplyBinary(f, lhs, rhs) ==
    IF lhs.kind = "poison" \/ rhs.kind = "poison"
    THEN PoisonV(IF f \in {"CreateICmpEQ", "CreateICmpNE", "CreateICmpSGT", "CreateICmpSLT",
                           "CreateICmpSGE", "CreateICmpSLE", "CreateFCmpOEQ", "CreateFCmpONE",
                           "CreateFCmpOGT", "CreateFCmpOLT", "CreateFCmpOGE", "CreateFCmpOLE",
                           "CreateFCmpUEQ", "CreateFCmpUNE", "CreateICmpUGT", "CreateICmpULT",
                           "CreateICmpUGE", "CreateICmpULE"}
                 THEN "i1" ELSE lhs.type)
    ELSE IF lhs.kind = "int" /\ rhs.kind = "int" THEN ApplyIntBinary(f, lhs, rhs)
    ELSE IF lhs.kind \in {"num", "nan"} /\ rhs.kind \in {"num", "nan"}
    THEN ApplyFpBinary(f, lhs, rhs)
    ELSE PoisonV(lhs.type)

---------------------------------------------------------------------------
(* binaryOperator (Utils.h 592-624).  warningsGiven says whether the       *)
(* caller passes a warnings string (FALSE: the null pointer).  The result  *)
(* is the outcome and the content of the warnings string afterwards.       *)

ImplicitCastWarning == "Implicit cast from float to int."

Effect(o, w) == [outcome |-> o, warnings |-> w]

\* the operands as they are after lines 610-620, the instructions appended so far
\* and the content of the warnings string; failed: the outcome of the call that threw
Operands2(l, r, code, w) ==
    [failed |-> NoOutcome, lhs |-> l, rhs |-> r, code |-> code, warnings |-> w]

OperandsFailed(o, code, w) ==
    [failed |-> [o EXCEPT !.code = code], lhs |-> NoValue, rhs |-> NoValue,
     code |-> code, warnings |-> w]

\* logicalOperands without the two boolComparison calls
logicalOperandsUncoerced(lhs, rhs) == Operands2(lhs, rhs, <<>>, warnings)

\* lines 610-614: the operands of a logical operator become booleans
logicalOperands(lhs, rhs) ==
    LET l == boolComparison(lhs)
    IN  IF l.status # "ok" THEN OperandsFailed(l, <<>>, warnings)
        ELSE LET r == boolComparison(rhs)
             IN  IF r.status # "ok" THEN OperandsFailed(r, l.code, warnings)
                 ELSE Operands2(l.val, r.val, l.code \o r.code, warnings)

\* bitwiseFloatOperands without the assignment to *warnings (line 619)
bitwiseFloatOperandsSilent(lhs, rhs, warningsGiven) ==
    LET r == arithmeticConversion(rhs, "i64")
    IN  IF r.status # "ok" THEN OperandsFailed(r, <<>>, warnings)
        ELSE LET l == arithmeticConversion(lhs, "i64")
             IN  IF l.status # "ok" THEN OperandsFailed(l, r.code, warnings)
                 ELSE Operands2(l.val, r.val, r.code \o l.code, warnings)

\* lines 615-620: floating point operands of a bitwise operator become i64
bitwiseFloatOperands(lhs, rhs, warningsGiven) ==
    LET r == arithmeticConversion(rhs, "i64")
    IN  IF r.status # "ok" THEN OperandsFailed(r, <<>>, warnings)
        ELSE LET l == arithmeticConversion(lhs, "i64")
             IN  IF l.status # "ok" THEN OperandsFailed(l, r.code, warnings)
                 ELSE Operands2(l.val, r.val, r.code \o l.code,
                                IF warningsGiven THEN ImplicitCastWarning ELSE warnings)

\* lines 610-620: the operands the instruction is built from
binaryOperands(lhs, rhs, token, warningsGiven) ==
    IF operatorType(token) = "LOGICAL" THEN logicalOperands(lhs, rhs)
    ELSE IF operatorType(token) = "BITWISE" /\ isFloatingPointTy(lhs.type)
    THEN bitwiseFloatOperands(lhs, rhs, warningsGiven)
    ELSE Operands2(lhs, rhs, <<>>, warnings)

\* lines 622-623: llvmBinaryFunction(builder, lhs, rhs) on the operands o
binaryFunctionCall(o, llvmBinaryFunction) ==
    Only({Effect(ReturnValue(result,
                             Append(o.code, Instr(llvmBinaryFunction.fn, o.lhs, o.rhs, result))),
                 o.warnings) :
          result \in {ApplyBinary(llvmBinaryFunction.fn, o.lhs, o.rhs)}})

\* lines 622-623 after the operands o are there
binaryFunction(o, token) ==
    IF o.failed.status # "none" THEN Effect(o.failed, o.warnings)
    ELSE Only({IF llvmBinaryFunction.status # "ok"
               THEN Effect([llvmBinaryFunction EXCEPT !.code = o.code], o.warnings)
               ELSE binaryFunctionCall(o, llvmBinaryFunction) :
               llvmBinaryFunction \in {llvmBinaryConversion(o.lhs.type, token)}})

\* binaryOperator comparing the types only after lines 610-620
binaryOperatorChecksLast(lhs, rhs, token, warningsGiven) ==
    Only({IF lhs.type # rhs.type
          THEN Effect(Throw("LLVMTypeError", o.code), o.warnings)
          ELSE binaryFunction(o, token) :
          o \in {binaryOperands(lhs, rhs, token, warningsGiven)}})

\* lines 599-607: operands of different types; lines 609-623 otherwise
binaryOperator(lhs, rhs, token, warningsGiven) ==
    IF lhs.type # rhs.type THEN Effect(Throw("LLVMTypeError", <<>>), warnings)
    ELSE Only({binaryFunction(o, token) :
               o \in {binaryOperands(lhs, rhs, token, warningsGiven)}})

---------------------------------------------------------------------------
(* Arrays.  An array on the stack has an element type and its elements; a  *)
(* pointer to array a (its number in mem) is the value of CreateAlloca, a  *)
(* pointer to its element i (from 0) the value of CreateConstGEP2_64.     *)
(* builder is the IRBuilder with the arrays its code works on: the         *)
(* instructions appended so far and the arrays' contents after them.       *)

UndefV(t) == Val(t, "undef", {}, FALSE, 0, 1)

\* a value of type pointer to array: n is the array's number
PtrV(a) == Val("ptr", "ptr", {}, FALSE, a, 1)

\* a pointer to element i of array a: d is the index
ElementPtr(a, i) == Val("ptr", "element", {}, FALSE, a, i)

ArrayOf(t, elems) == [type |-> t, elems |-> elems]

Builder(code, m) == [code |-> code, mem |-> m]

\* what a call leaves: its outcome, the arrays and the vector
CallResult(o, m, v) == [outcome |-> o, mem |-> m, values |-> v]

Given(m, v) == [mem |-> m, values |-> v]

NoGiven == Given(<<>>, <<>>)

\* llvm::ConstantInt::get(i64, i)
Index(i) == IntV("i64", ToBits(i, BitWidth("i64")))

\* builder.CreateAlloca of n elements of type t; the pointer is PtrV(Len(mem))
CreateAlloca(builder, t, n) ==
    Builder(Append(builder.code,
                   Instr("CreateAlloca", Index(n), NoValue, PtrV(Len(builder.mem) + 1))),
            Append(builder.mem, ArrayOf(t, [i \in 1..n |-> UndefV(t)])))

\* builder.CreateConstGEP2_64(ptr, 0, i) and CreateConstGEP1_64(ptr, i)
CreateConstGEP(builder, ptr, i) ==
    Builder(Append(builder.code, Instr("CreateConstGEP", ptr, Index(i), ElementPtr(ptr.n, i))),
            builder.mem)

InBounds(m, ptr) ==
    /\ ptr.kind = "element"
    /\ ptr.n \in 1..Len(m)
    /\ ptr.d \in 0..(Len(m[ptr.n].elems) - 1)

\* the value a load through ptr gives
Loaded(m, ptr) ==
    IF InBounds(m, ptr) THEN m[ptr.n].elems[ptr.d + 1] ELSE PoisonV("void")

\* builder.CreateLoad(ptr)
CreateLoad(builder, ptr) ==
    Builder(Append(builder.code, Instr("CreateLoad", ptr, NoValue, Loaded(builder.mem, ptr))),
            builder.mem)

\* builder.CreateStore(value, ptr)
CreateStore(builder, value, ptr) ==
    Builder(Append(builder.code, Instr("CreateStore", value, ptr, NoValue)),
            IF InBounds(builder.mem, ptr)
            THEN [builder.mem EXCEPT ![ptr.n].elems[ptr.d + 1] = value]
            ELSE builder.mem)

\* llvmCastFunction(builder, value, targetType) for the cast function f
CreateCast(builder, f, value, targetType) ==
    Builder(Append(builder.code, Instr(f, value, NoValue, ApplyCast(f, value, targetType))),
            builder.mem)

\* the outcome o with the builder's instructions, and the builder's arrays
Built(o, builder, v) == CallResult([o EXCEPT !.code = builder.code], builder.mem, v)

---------------------------------------------------------------------------
(* arrayCast (Utils.h 450-487)                                             *)

\* arrayCastElement loading the first element of the source whatever i is
arrayCastElementFirst(builder, ptrToArray, targetArray, f, targetElementType, i) ==
    Only({CreateStore(b4, b4.code[Len(b4.code)].result, ElementPtr(targetArray.n, i)) :
          b4 \in {CreateCast(b3, f, Loaded(b3.mem, ElementPtr(ptrToArray.n, 0)),
                             targetElementType) :
          b3 \in {CreateLoad(b2, ElementPtr(ptrToArray.n, 0)) :
          b2 \in {CreateConstGEP(b1, ptrToArray, 0) :
          b1 \in {CreateConstGEP(builder, targetArray, i)}}}}})

\* lines 478-484: element i of the loop
arrayCastElement(builder, ptrToArray, targetArray, f, targetElementType, i) ==
    Only({CreateStore(b4, b4.code[Len(b4.code)].result, ElementPtr(targetArray.n, i)) :
          b4 \in {CreateCast(b3, f, Loaded(b3.mem, ElementPtr(ptrToArray.n, i)),
                             targetElementType) :
          b3 \in {CreateLoad(b2, ElementPtr(ptrToArray.n, i)) :
          b2 \in {CreateConstGEP(b1, ptrToArray, i) :
          b1 \in {CreateConstGEP(builder, targetArray, i)}}}}})

\* lines 477-485: the loop from element i
RECURSIVE arrayCastLoop(_, _, _, _, _, _, _)
arrayCastLoop(builder, ptrToArray, targetArray, f, targetElementType, i, elementSize) ==
    IF i >= elementSize THEN builder
    ELSE Only({arrayCastLoop(b, ptrToArray, targetArray, f, targetElementType, i + 1,
                             elementSize) :
               b \in {arrayCastElement(builder, ptrToArray, targetArray, f,
                                       targetElementType, i)}})

\* lines 473-486, the cast function there
arrayCastCopy(builder, ptrToArray, targetElementType, llvmCastFunction) ==
    Only({Only({Built(ReturnValue(PtrV(Len(b1.mem)), <<>>), b2, <<>>) :
                b2 \in {arrayCastLoop(b1, ptrToArray, PtrV(Len(b1.mem)), llvmCastFunction.fn,
                                      targetElementType, 0,
                                      Len(builder.mem[ptrToArray.n].elems))}}) :
          b1 \in {CreateAlloca(builder, targetElementType,
                               Len(builder.mem[ptrToArray.n].elems))}})

\* arrayCast without the return of line 471
arrayCastAlwaysCopies(builder, ptrToArray, targetElementType) ==
    IF ~ndebug /\ ~(isIntegerTy(targetElementType) \/ isFloatingPointTy(targetElementType))
    THEN Built(AssertFailed, builder, <<>>)
    ELSE Only({IF llvmCastFunction.status # "ok"
               THEN Built(llvmCastFunction, builder, <<>>)
               ELSE arrayCastCopy(builder, ptrToArray, targetElementType, llvmCastFunction) :
               llvmCastFunction \in
                   {IF builder.mem[ptrToArray.n].type = targetElementType
                    THEN ReturnFunction("CreateBitCast")
                    ELSE llvmArithmeticConversion(builder.mem[ptrToArray.n].type,
                                                  targetElementType)}})

arrayCast(builder, ptrToArray, targetElementType) ==
    IF ~ndebug /\ ~(isIntegerTy(targetElementType) \/ isFloatingPointTy(targetElementType))
    THEN Built(AssertFailed, builder, <<>>)
    ELSE IF ~ndebug /\ ptrToArray.kind # "ptr" THEN Built(AssertFailed, builder, <<>>)
    ELSE LET sourceElementType == builder.mem[ptrToArray.n].type
         IN  IF ~ndebug /\ ~(isIntegerTy(sourceElementType)
                             \/ isFloatingPointTy(sourceElementType))
             THEN Built(AssertFailed, builder, <<>>)
             ELSE IF sourceElementType = targetElementType
             THEN Built(ReturnValue(ptrToArray, <<>>), builder, <<>>)
             ELSE Only({IF llvmCastFunction.status # "ok"
                        THEN Built(llvmCastFunction, builder, <<>>)
                        ELSE arrayCastCopy(builder, ptrToArray, targetElementType,
                                           llvmCastFunction) :
                        llvmCastFunction \in
                            {llvmArithmeticConversion(sourceElementType, targetElementType)}})

---------------------------------------------------------------------------
(* arrayUnpack (Utils.h 651-666), array3Unpack (678-691) and array3Pack    *)
(* (703-728)                                                               *)

\* the builder and the vector after some turns of the loop of lines 660-665
Unpacked(builder, vector) == [builder |-> builder, values |-> vector]

\* lines 661-664: element i of the loop
arrayUnpackElement(r, ptrToArray, loadElements, i) ==
    Only({IF loadElements
          THEN Unpacked(CreateLoad(b, ElementPtr(ptrToArray.n, i)),
                        Append(r.values, Loaded(b.mem, ElementPtr(ptrToArray.n, i))))
          ELSE Unpacked(b, Append(r.values, ElementPtr(ptrToArray.n, i))) :
          b \in {CreateConstGEP(r.builder, ptrToArray, i)}})

\* lines 660-665: the loop from element i
RECURSIVE arrayUnpackLoop(_, _, _, _, _)
arrayUnpackLoop(r, ptrToArray, loadElements, i, elements) ==
    IF i >= elements THEN r
    ELSE Only({arrayUnpackLoop(e, ptrToArray, loadElements, i + 1, elements) :
               e \in {arrayUnpackElement(r, ptrToArray, loadElements, i)}})

\* vector is the vector values the elements are pushed onto
arrayUnpack(builder, ptrToArray, vector, loadElements) ==
    Only({Built(ReturnValue(NoValue, <<>>), r.builder, r.values) :
          r \in {arrayUnpackLoop(Unpacked(builder, vector), ptrToArray, loadElements, 0,
                                 Len(builder.mem[ptrToArray.n].elems))}})

array3Unpack(builder, ptrToArray) ==
    IF ~ndebug /\ ptrToArray.type # "ptr" THEN Built(AssertFailed, builder, <<>>)
    ELSE Only({Built(ReturnValue(NoValue, <<>>), b3,
                     <<ElementPtr(ptrToArray.n, 0), ElementPtr(ptrToArray.n, 1),
                       ElementPtr(ptrToArray.n, 2)>>) :
               b3 \in {CreateConstGEP(b2, ptrToArray, 2) :
               b2 \in {CreateConstGEP(b1, ptrToArray, 1) :
               b1 \in {CreateConstGEP(builder, ptrToArray, 0)}}}})

\* the three conversions of lines 709-711: the first that fails ends the call
\* with the instructions created before it
Conversions(builder, c) ==
    [failed |-> IF c[1].status # "ok" THEN c[1]
                ELSE IF c[2].status # "ok" THEN c[2]
                ELSE IF c[3].status # "ok" THEN c[3]
                ELSE NoOutcome,
     code |-> IF c[1].status # "ok" THEN builder.code
              ELSE IF c[2].status # "ok" THEN builder.code \o c[1].code
              ELSE IF c[3].status # "ok" THEN builder.code \o c[1].code \o c[2].code
              ELSE builder.code \o c[1].code \o c[2].code \o c[3].code,
     values |-> <<c[1].val, c[2].val, c[3].val>>]

\* array3PackStore storing value3 where value1 goes and value1 where value3 goes
array3PackStoreReversed(builder, type, value1, value2, value3) ==
    Only({Built(ReturnValue(PtrV(Len(b7.mem)), <<>>), b7, <<>>) :
          b7 \in {CreateStore(b6, value1, ElementPtr(Len(b6.mem), 2)) :
          b6 \in {CreateStore(b5, value2, ElementPtr(Len(b5.mem), 1)) :
          b5 \in {CreateStore(b4, value3, ElementPtr(Len(b4.mem), 0)) :
          b4 \in {CreateConstGEP(b3, PtrV(Len(b3.mem)), 2) :
          b3 \in {CreateConstGEP(b2, PtrV(Len(b2.mem)), 1) :
          b2 \in {CreateConstGEP(b1, PtrV(Len(b1.mem)), 0) :
          b1 \in {CreateAlloca(builder, type, 3)}}}}}}}})

\* lines 713-727: the array, the pointers to its elements, the stores
array3PackStore(builder, type, value1, value2, value3) ==
    Only({Built(ReturnValue(PtrV(Len(b7.mem)), <<>>), b7, <<>>) :
          b7 \in {CreateStore(b6, value3, ElementPtr(Len(b6.mem), 2)) :
          b6 \in {CreateStore(b5, value2, ElementPtr(Len(b5.mem), 1)) :
          b5 \in {CreateStore(b4, value1, ElementPtr(Len(b4.mem), 0)) :
          b4 \in {CreateConstGEP(b3, PtrV(Len(b3.mem)), 2) :
          b3 \in {CreateConstGEP(b2, PtrV(Len(b2.mem)), 1) :
          b2 \in {CreateConstGEP(b1, PtrV(Len(b1.mem)), 0) :
          b1 \in {CreateAlloca(builder, type, 3)}}}}}}}})

\* lines 709-727, type the type of lines 706-707
array3PackAs(builder, type, value1, value2, value3) ==
    Only({IF c.failed.status # "none"
          THEN Built(c.failed, Builder(c.code, builder.mem), <<>>)
          ELSE array3PackStore(Builder(c.code, builder.mem), type,
                               c.values[1], c.values[2], c.values[3]) :
          c \in {Conversions(builder, <<c1, c2, c3>>) :
                 c1 \in {arithmeticConversion(value1, type)},
                 c2 \in {arithmeticConversion(value2, type)},
                 c3 \in {arithmeticConversion(value3, type)}}})

array3Pack(builder, value1, value2, value3) ==
    Only({IF type12.status # "ok" THEN Built(type12, builder, <<>>)
          ELSE Only({IF type.status # "ok" THEN Built(type, builder, <<>>)
                     ELSE array3PackAs(builder, type.type, value1, value2, value3) :
                     type \in {typePrecedence(type12.type, value3.type)}}) :
          type12 \in {typePrecedence(value1.type, value2.type)}})

---------------------------------------------------------------------------
(* arrayPack(values, builder) (Utils.h 765-780) and arrayPackCast (791-809) *)
(* A vector of llvm values is a sequence; a function that changes the       *)
(* caller's vector leaves it in the values of its CallResult.               *)

\* the builder, the vector and the outcome of the call that failed, if one did,
\* after some turns of a loop over the vector
Converted(builder, vector, failed) ==
    [builder |-> builder, values |-> vector, failed |-> failed]

\* lines 774-777: the loop from value idx + 1 of the vector, idx counting from 0
RECURSIVE arrayPackLoop(_, _, _, _)
arrayPackLoop(builder, array, vector, idx) ==
    IF idx >= Len(vector) THEN builder
    ELSE Only({arrayPackLoop(b2, array, vector, idx + 1) :
               b2 \in {CreateStore(b1, vector[idx + 1], ElementPtr(array.n, idx)) :
               b1 \in {CreateConstGEP(builder, array, idx)}}})

\* the vector is not empty
arrayPack(builder, vector) ==
    Only({Built(ReturnValue(PtrV(Len(b.mem)), <<>>), b, vector) :
          b \in {arrayPackLoop(b1, PtrV(Len(b1.mem)), vector, 0) :
          b1 \in {CreateAlloca(builder, vector[1].type, Len(vector))}}})

\* arrayPackCastType taking the type of the first value
arrayPackCastTypeOfFront(vector, type, i) == ReturnType(vector[1].type)

\* lines 797-800: the loop from value i of the vector, type the type so far
RECURSIVE arrayPackCastType(_, _, _)
arrayPackCastType(vector, type, i) ==
    IF i > Len(vector) THEN ReturnType(type)
    ELSE Only({IF t.status # "ok" THEN t ELSE arrayPackCastType(vector, t.type, i + 1) :
               t \in {typePrecedence(type, vector[i].type)}})

\* lines 804-806: the loop from value i of the vector
RECURSIVE arrayPackCastConvert(_, _, _)
arrayPackCastConvert(r, type, i) ==
    IF i > Len(r.values) \/ r.failed.status # "none" THEN r
    ELSE Only({arrayPackCastConvert(
                   IF c.status # "ok" THEN Converted(r.builder, r.values, c)
                   ELSE Converted(Builder(r.builder.code \o c.code, r.builder.mem),
                                  [r.values EXCEPT ![i] = c.val], NoOutcome),
                   type, i + 1) :
               c \in {arithmeticConversion(r.values[i], type)}})

arrayPackCast(builder, vector) ==
    Only({IF type.status # "ok" THEN Built(type, builder, vector)
          ELSE Only({IF r.failed.status # "none" THEN Built(r.failed, r.builder, r.values)
                     ELSE arrayPack(r.builder, r.values) :
                     r \in {arrayPackCastConvert(Converted(builder, vector, NoOutcome),
                                                 type.type, 1)}}) :
          type \in {arrayPackCastType(vector, "i1", 1)}})

---------------------------------------------------------------------------
(* arithmeticConversion(values, targetElementType, builder) (Utils.h       *)
(* 498-519) and arithmeticConversion(values, builder) (527-538).  The one  *)
(* cast function of line 514 is applied to every value whatever its type:  *)
(* IRBuilder::CreateCast returns a value that has the target type as it    *)
(* is, and creates the instruction otherwise.  An instruction that is not  *)
(* valid for the value's type fails an assert of llvm where llvm is built  *)
(* with assertions (llvmAsserts), and is created with no defined result   *)
(* where it is not.                                                        *)

\* llvm::CastInst::castIsValid for the instruction f creates
castIsValid(f, sourceType, targetType) ==
    CASE f \in {"CreateSExt", "CreateZExt"} ->
           /\ isIntegerTy(sourceType) /\ isIntegerTy(targetType)
           /\ BitWidth(sourceType) < BitWidth(targetType)
      [] f = "CreateTrunc" ->
           /\ isIntegerTy(sourceType) /\ isIntegerTy(targetType)
           /\ BitWidth(sourceType) > BitWidth(targetType)
      [] f = "CreateFPExt" -> sourceType = "float" /\ targetType = "double"
      [] f = "CreateFPTrunc" -> sourceType = "double" /\ targetType = "float"
      [] f \in {"CreateSIToFP", "CreateUIToFP"} ->
           isIntegerTy(sourceType) /\ isFloatingPointTy(targetType)
      [] f \in {"CreateFPToSI", "CreateFPToUI"} ->
           isFloatingPointTy(sourceType) /\ isIntegerTy(targetType)
      [] OTHER -> FALSE

\* line 517: value = llvmCastFunction(builder, value, targetElementType) for
\* value i of the vector in r
llvmCastFunctionCall(r, f, targetElementType, i, llvmAsserts) ==
    IF r.values[i].type = targetElementType THEN r
    ELSE IF ~castIsValid(f, r.values[i].type, targetElementType) /\ llvmAsserts
    THEN Converted(r.builder, r.values, AssertFailed)
    ELSE Only({Converted(b, [r.values EXCEPT ![i] = b.code[Len(b.code)].result], NoOutcome) :
               b \in {IF castIsValid(f, r.values[i].type, targetElementType)
                      THEN CreateCast(r.builder, f, r.values[i], targetElementType)
                      ELSE Builder(Append(r.builder.code,
                                          Instr(f, r.values[i], NoValue,
                                                PoisonV(targetElementType))),
                                   r.builder.mem)}})

\* lines 516-518: the loop from value i of the vector
RECURSIVE arithmeticConversionLoop(_, _, _, _, _)
arithmeticConversionLoop(r, f, targetElementType, i, llvmAsserts) ==
    IF i > Len(r.values) \/ r.failed.status # "none" THEN r
    ELSE Only({arithmeticConversionLoop(e, f, targetElementType, i + 1, llvmAsserts) :
               e \in {llvmCastFunctionCall(r, f, targetElementType, i, llvmAsserts)}})

\* arithmeticConversion(values, targetElementType, builder): the vector is not empty
arithmeticConversionValues(builder, vector, targetElementType, llvmAsserts) ==
    IF ~ndebug /\ ~(isIntegerTy(targetElementType) \/ isFloatingPointTy(targetElementType))
    THEN Built(AssertFailed, builder, vector)
    ELSE IF ~ndebug /\ ~(isIntegerTy(vector[1].type) \/ isFloatingPointTy(vector[1].type))
    THEN Built(AssertFailed, builder, vector)
    ELSE IF vector[1].type = targetElementType
    THEN Built(ReturnValue(NoValue, <<>>), builder, vector)
    ELSE Only({IF llvmCastFunction.status # "ok" THEN Built(llvmCastFunction, builder, vector)
               ELSE Only({Built(IF r.failed.status # "none" THEN r.failed
                                ELSE ReturnValue(NoValue, <<>>),
                                r.builder, r.values) :
                          r \in {arithmeticConversionLoop(
                                     Converted(builder, vector, NoOutcome),
                                     llvmCastFunction.fn, targetElementType, 1,
                                     llvmAsserts)}}) :
               llvmCastFunction \in
                   {llvmArithmeticConversion(vector[1].type, targetElementType)}})

\* lines 530-534: the loop from value i of the vector, typeCast the type so far
RECURSIVE highestScalarType(_, _, _)
highestScalarType(vector, typeCast, i) ==
    IF i > Len(vector) THEN ReturnType(typeCast)
    ELSE IF ~isScalarType(vector[i].type) THEN highestScalarType(vector, typeCast, i + 1)
    ELSE Only({IF t.status # "ok" THEN t ELSE highestScalarType(vector, t.type, i + 1) :
               t \in {typePrecedence(typeCast, vector[i].type)}})

\* arithmeticConversion(values, builder)
arithmeticConversionHighest(builder, vector, llvmAsserts) ==
    Only({IF typeCast.status # "ok" THEN Built(typeCast, builder, vector)
          ELSE arithmeticConversionValues(builder, vector, typeCast.type, llvmAsserts) :
          typeCast \in {highestScalarType(vector, "i1", 1)}})

---------------------------------------------------------------------------
(* llvmStringToValue (Utils.h 145-168).  A string is the sequence of its   *)
(* chars, a char an i8 value.                                              *)

\* string[i], i from 0: the char after the last is the null char
CharAt(string, i) == IF i < Len(string) THEN string[i + 1].bits ELSE {}

\* uint64_t(c) of the char c: sign extended where char is a signed type
ToUInt64(c, charIsSigned) ==
    IF charIsSigned /\ (BitWidth("i8") - 1) \in c
    THEN c \cup (BitWidth("i8")..(BitWidth("i64") - 1))
    ELSE c

\* llvm::ConstantInt::get(type, v, false): v cut to the width of type
ConstantInt(type, v) == IntV(type, v \cap (0..(BitWidth(type) - 1)))

\* lines 160-165: the loop from char i, up to and with char last
RECURSIVE llvmStringToValueLoop(_, _, _, _, _, _)
llvmStringToValueLoop(builder, string, store, i, last, charIsSigned) ==
    IF i > last THEN builder
    ELSE Only({llvmStringToValueLoop(b2, string, store, i + 1, last, charIsSigned) :
               b2 \in {CreateStore(b1, ConstantInt("i8", ToUInt64(CharAt(string, i),
                                                                 charIsSigned)),
                                   ElementPtr(store.n, i)) :
               b1 \in {CreateConstGEP(builder, store, i)}}})

\* llvmStringToValue with i < string.size() as the loop's test
llvmStringToValueUnterminated(builder, string, charIsSigned) ==
    Only({Built(ReturnValue(PtrV(Len(b.mem)), <<>>), b, <<>>) :
          b \in {llvmStringToValueLoop(b1, string, PtrV(Len(b1.mem)), 0, Len(string) - 1,
                                       charIsSigned) :
          b1 \in {CreateAlloca(builder, "i8", Len(string) + 1)}}})

llvmStringToValue(builder, string, charIsSigned) ==
    Only({Built(ReturnValue(PtrV(Len(b.mem)), <<>>), b, <<>>) :
          b \in {llvmStringToValueLoop(b1, string, PtrV(Len(b1.mem)), 0, Len(string),
                                       charIsSigned) :
          b1 \in {CreateAlloca(builder, "i8", Len(string) + 1)}}})

---------------------------------------------------------------------------
(* Overload selection (specification 4.3; the function registry is not     *)
(* among the sources, so the algorithm is taken from its description).     *)
(* AX types carry the specification's names.                               *)

\* the precedence order of the scalar AX types, lowest first (4.1)
AXPrecedenceOrder == <<"bool", "i8", "i16", "i32", "i64", "f32", "f64">>

isAXScalar(t) == \E i \in 1..Len(AXPrecedenceOrder) : AXPrecedenceOrder[i] = t

AXPrecedence(t) == CHOOSE i \in 1..Len(AXPrecedenceOrder) : AXPrecedenceOrder[i] = t

isAXFloat(t) == t \in {"f32", "f64"}

\* the cost of a parameter no implicit conversion reaches
Infinite == 4

\* step 2: the cost of passing an argument of type a for a parameter of type p
cost(a, p) ==
    IF a = p THEN 0
    ELSE IF ~(isAXScalar(a) /\ isAXScalar(p)) THEN Infinite
    ELSE IF isAXFloat(a) = isAXFloat(p)
    THEN (IF AXPrecedence(a) < AXPrecedence(p) THEN 1 ELSE 3)
    ELSE IF isAXFloat(p) THEN 2
    ELSE 3

\* step 2: the cost vector of the signature S for the arguments A; step 1:
\* a signature of another arity has none
costVector(S, A) ==
    IF Len(S) # Len(A) THEN <<>> ELSE [i \in 1..Len(A) |-> cost(A[i], S[i])]

\* steps 1 and 3: the signature stays
remains(S, A) ==
    /\ Len(S) = Len(A)
    /\ \A i \in 1..Len(A) : cost(A[i], S[i]) # Infinite

lexLess(u, v) ==
    \E i \in 1..Len(u) : u[i] < v[i] /\ \A k \in 1..(i - 1) : u[k] = v[k]

RECURSIVE costSum(_)
costSum(c) == IF c = <<>> THEN 0 ELSE c[1] + costSum(Tail(c))

\* a later signature never replaces an earlier one it only equals
betterOrEqual(u, v) == ~lexLess(v, u)

\* step 4: u is chosen before v whatever the order of declaration
better(u, v) == lexLess(u, v) \/ (u = v /\ costSum(u) < costSum(v))

\* step 4, in the order of declaration: best is the signature chosen among
\* the first j - 1, 0 when none of them remains
RECURSIVE selectFrom(_, _, _, _)
selectFrom(A, signatures, j, best) ==
    IF j > Len(signatures) THEN best
    ELSE selectFrom(A, signatures, j + 1,
             IF ~remains(signatures[j], A) THEN best
             ELSE IF best = 0 THEN j
             ELSE IF better(costVector(signatures[j], A), costVector(signatures[best], A))
             THEN j
             ELSE best)

\* steps 1 to 5: the index of the signature selected is the vector returned;
\* the cost vectors take the place of the arrays.  No two signatures tie on
\* every key of step 4, the order of declaration being one of them.
selectOverload(A, signatures) ==
    Only({IF j = 0
          THEN CallResult(Throw("FunctionLookupError", <<>>), <<>>, <<>>)
          ELSE CallResult(ReturnType("void"),
                          [k \in 1..Len(signatures) |-> costVector(signatures[k], A)],
                          <<j>>) :
          j \in {selectFrom(A, signatures, 1, 0)}})

---------------------------------------------------------------------------
(* Grid comparison (Utils.h 853-1530).  A leaf node has LeafSize voxels,   *)
(* numbered from 0 (512 in OpenVDB, where a leaf is 8 x 8 x 8); a grid has *)
(* leaf nodes at some of the origins 1..MaxLeaves.  A pointer               *)
(* (std::unique_ptr, std::shared_ptr, a leaf probed) is Null or Ptr(x).     *)

LeafSize == 2

MaxLeaves == 2

Offsets == 0..(LeafSize - 1)

Origins == 1..MaxLeaves

Null == <<>>

Ptr(x) == <<x>>

\* lines 884-890: the members after construction
DiagnosticData ==
    [mValid |-> TRUE, mBufferSizes |-> TRUE, mVoxelTopologyFlags |-> Null,
     mVoxelValueFlags |-> Null, mDescriptorsMatch |-> TRUE, mAttributeArrayData |-> Null]

\* lines 892-898
hasValueFlags(d) == d.mVoxelValueFlags # Null

hasTopologyFlags(d) == d.mVoxelTopologyFlags # Null

\* lines 903-904 and 912-913: the new array, filled with true
FilledFlags == [n \in 1..LeafSize |-> TRUE]

\* flagVoxelTopology filling the array on every call
flagVoxelTopologyRefills(d, idx) ==
    [d EXCEPT !.mVoxelTopologyFlags = Ptr([FilledFlags EXCEPT ![idx + 1] = FALSE])]

\* lines 900-907; idx is an offset of the leaf
flagVoxelTopology(d, idx) ==
    [d EXCEPT !.mVoxelTopologyFlags =
        Ptr([(IF d.mVoxelTopologyFlags = Null THEN FilledFlags ELSE d.mVoxelTopologyFlags[1])
             EXCEPT ![idx + 1] = FALSE])]

\* lines 909-916
flagVoxelValue(d, idx) ==
    [d EXCEPT !.mVoxelValueFlags =
        Ptr([(IF d.mVoxelValueFlags = Null THEN FilledFlags ELSE d.mVoxelValueFlags[1])
             EXCEPT ![idx + 1] = FALSE])]

\* a leaf node: the offsets of its active voxels (its value mask) and its
\* buffer, one value per voxel, or no value when the buffer is not allocated
Leaf(mask, buffer) == [mask |-> mask, buffer |-> buffer]

\* ComparisonSettings (CompareGrids.h)
Settings(transforms, structure, descriptors, states, buffers, arrays, flags) ==
    [mCheckTransforms |-> transforms, mCheckTopologyStructure |-> structure,
     mCheckDescriptors |-> descriptors, mCheckActiveStates |-> states,
     mCheckBufferValues |-> buffers, mCheckArrayValues |-> arrays,
     mCheckArrayFlags |-> flags]

\* openvdb::math::isApproxEqual(a, b, tolerance): !(Abs(a - b) > tolerance)
isApproxEqual(a, b, tolerance) ==
    ~((IF a < b THEN b - a ELSE a - b) > tolerance)

\* compareVoxel flagging whatever the settings are
compareVoxelUnconditional(firstLeaf, secondLeaf, d, settings, tolerance, n) ==
    Only({IF ~isApproxEqual(firstLeaf.buffer[n + 1], secondLeaf.buffer[n + 1], tolerance)
          THEN flagVoxelValue(d1, n)
          ELSE d1 :
          d1 \in {IF (n \in firstLeaf.mask) # (n \in secondLeaf.mask)
                  THEN flagVoxelTopology(d, n)
                  ELSE d}})

\* lines 973-984: the turn of the loop for the offset n; the buffers hold a
\* value for n (line 974)
compareVoxel(firstLeaf, secondLeaf, d, settings, tolerance, n) ==
    Only({IF settings.mCheckBufferValues
             /\ ~isApproxEqual(firstLeaf.buffer[n + 1], secondLeaf.buffer[n + 1], tolerance)
          THEN flagVoxelValue(d1, n)
          ELSE d1 :
          d1 \in {IF settings.mCheckActiveStates
                     /\ ((n \in firstLeaf.mask) # (n \in secondLeaf.mask))
                  THEN flagVoxelTopology(d, n)
                  ELSE d}})

\* lines 970-985: the loop over the offsets that are on in mask, from n on
RECURSIVE compareLeafBuffersLoop(_, _, _, _, _, _, _)
compareLeafBuffersLoop(firstLeaf, secondLeaf, mask, d, settings, tolerance, n) ==
    IF n >= LeafSize THEN d
    ELSE compareLeafBuffersLoop(firstLeaf, secondLeaf, mask,
             IF n \in mask
             THEN compareVoxel(firstLeaf, secondLeaf, d, settings, tolerance, n)
             ELSE d,
             settings, tolerance, n + 1)

\* what a function that works on a DiagnosticData returns, and the data after it
Compared(returned, d) == [returned |-> returned, data |-> d, exc |-> ""]

\* the function has thrown
Threw(e, d) == [returned |-> FALSE, data |-> d, exc |-> e]

\* lines 946-988
compareLeafBuffers(firstLeaf, secondLeaf, mask, d, settings, tolerance) ==
    IF Len(firstLeaf.buffer) # Len(secondLeaf.buffer)
    THEN Compared(FALSE, [d EXCEPT !.mBufferSizes = FALSE])
    ELSE Only({Compared(~hasValueFlags(e) /\ ~hasTopologyFlags(e), e) :
               e \in {compareLeafBuffersLoop(firstLeaf, secondLeaf, mask, d, settings,
                                             tolerance, 0)}})

\* a leaf node of a point data grid: the value of a voxel is the number of
\* points in the voxels up to it, and every attribute array has a value per
\* point; attributes maps the names of the descriptor to the arrays
PointLeaf(mask, buffer, attributes) ==
    [mask |-> mask, buffer |-> buffer, attributes |-> attributes]

\* an attribute array: type is array.type().first, codec array.type().second
AttributeArray(type, codec, flags, vals) ==
    [type |-> type, codec |-> codec, flags |-> flags, values |-> vals]

\* lines 862-866
DiagnosticArrayData ==
    [mSizeMatch |-> TRUE, mTypesMatch |-> TRUE, mFlagsMatch |-> TRUE,
     mArrayValueFlags |-> Null]

\* lines 868-872
flagArrayValue(a, idx) ==
    [a EXCEPT !.mArrayValueFlags =
        Ptr(Append(IF a.mArrayValueFlags = Null THEN <<>> ELSE a.mArrayValueFlags[1], idx))]

\* lines 918-924: the data with an entry for name in its map
getDiagnosticArrayData(d, name) ==
    IF d.mAttributeArrayData = Null
    THEN [d EXCEPT !.mAttributeArrayData = Ptr([n \in {name} |-> DiagnosticArrayData])]
    ELSE [d EXCEPT !.mAttributeArrayData =
             Ptr([n \in DOMAIN d.mAttributeArrayData[1] \cup {name} |->
                     IF n \in DOMAIN d.mAttributeArrayData[1]
                     THEN d.mAttributeArrayData[1][n]
                     ELSE DiagnosticArrayData])]

\* lines 926-929
hasDiagnosticArrayData(d) == d.mAttributeArrayData # Null

\* the number of points of a leaf, and the voxel of its point i
PointCount(leaf) == leaf.buffer[LeafSize]

VoxelOf(leaf, i) == CHOOSE n \in Offsets :
    /\ i < leaf.buffer[n + 1]
    /\ \A k \in Offsets : k < n => ~(i < leaf.buffer[k + 1])

\* h2.get(i): beyond is what a read past the end of the array gives
GetValue(a, i, beyond) == IF i < Len(a.values) THEN a.values[i + 1] ELSE beyond

\* lines 1016-1022 and 1049-1055: the points from i on
RECURSIVE flagArrayValues(_, _, _, _, _, _, _)
flagArrayValues(a1, a2, leaf, name, d, beyond, i) ==
    IF i >= PointCount(leaf) THEN d
    ELSE flagArrayValues(a1, a2, leaf, name,
             IF GetValue(a1, i, beyond) # GetValue(a2, i, beyond)
             THEN flagVoxelValue(
                      [d EXCEPT !.mAttributeArrayData[1][name] = flagArrayValue(@, i)],
                      VoxelOf(leaf, i))
             ELSE d,
             beyond, i + 1)

\* lines 999-1023 and 1035-1056: compareStringArrays and compareArrays
compareArrays(a1, a2, leaf, name, d, beyond) ==
    Only({IF \E i \in 0..(PointCount(leaf) - 1) :
                GetValue(a1, i, beyond) # GetValue(a2, i, beyond)
          THEN flagArrayValues(a1, a2, leaf, name, getDiagnosticArrayData(d1, name),
                               beyond, 0)
          ELSE d1 :
          d1 \in {IF Len(a1.values) # Len(a2.values)
                  THEN [getDiagnosticArrayData(d, name)
                           EXCEPT !.mAttributeArrayData[1][name].mSizeMatch = FALSE]
                  ELSE d}})

\* the value types compareArrays is instantiated for (lines 1125-1136)
ComparedTypes ==
    {"bool", "float", "double", "uint8", "uint32", "int16", "int32", "int64",
     "vec3d", "vec3s", "vec3i", "mat4s"}

\* the names of the attributes, in the order of std::set<std::string>
AttributeNames == <<"P", "id">>

\* Descriptor::hasSameAttributes: the same names with the same types
hasSameAttributes(first, second) ==
    /\ DOMAIN first = DOMAIN second
    /\ \A n \in DOMAIN first :
         first[n].type = second[n].type /\ first[n].codec = second[n].codec

\* lines 1104-1140: the turn of the loop for the common attribute name
compareAttribute(firstLeaf, secondLeaf, name, r, settings, beyond) ==
    LET array1 == firstLeaf.attributes[name]
        array2 == secondLeaf.attributes[name]
    IN  IF array1.type # array2.type
        THEN Compared(TRUE, [getDiagnosticArrayData(r.data, name)
                                EXCEPT !.mAttributeArrayData[1][name].mTypesMatch = FALSE])
        ELSE Only({IF ~settings.mCheckArrayValues THEN Compared(TRUE, d1)
                   ELSE IF array1.codec = "str" \/ array1.type \in ComparedTypes
                   THEN Compared(TRUE, compareArrays(array1, array2, firstLeaf, name, d1,
                                                     beyond))
                   ELSE Threw("std::runtime_error", d1) :
                   d1 \in {IF settings.mCheckArrayFlags /\ array1.flags # array2.flags
                           THEN [getDiagnosticArrayData(r.data, name)
                                    EXCEPT !.mAttributeArrayData[1][name].mFlagsMatch = FALSE]
                           ELSE r.data}})

\* lines 1103-1141: the loop over the common attributes from the k-th name on
RECURSIVE compareAttributesLoop(_, _, _, _, _, _)
compareAttributesLoop(firstLeaf, secondLeaf, k, r, settings, beyond) ==
    IF k > Len(AttributeNames) \/ r.exc # "" THEN r
    ELSE compareAttributesLoop(firstLeaf, secondLeaf, k + 1,
             IF AttributeNames[k] \in DOMAIN firstLeaf.attributes
                                      \cap DOMAIN secondLeaf.attributes
             THEN compareAttribute(firstLeaf, secondLeaf, AttributeNames[k], r, settings,
                                   beyond)
             ELSE r,
             settings, beyond)

\* lines 1059-1066 (the leaves of a grid of values) and 1068-1144 (the leaves of
\* a point data grid)
compareAttributes(firstLeaf, secondLeaf, d, settings, beyond) ==
    IF "attributes" \notin DOMAIN firstLeaf THEN Compared(TRUE, d)
    ELSE Only({IF r.exc # "" THEN r
               ELSE Compared(~hasDiagnosticArrayData(r.data) /\ r.data.mDescriptorsMatch,
                             r.data) :
               r \in {compareAttributesLoop(firstLeaf, secondLeaf, 1,
                         Compared(TRUE,
                             IF settings.mCheckDescriptors
                                /\ ~hasSameAttributes(firstLeaf.attributes,
                                                      secondLeaf.attributes)
                             THEN [d EXCEPT !.mDescriptorsMatch = FALSE]
                             ELSE d),
                         settings, beyond)}})

\* lines 1193-1194 with the attributes compared whatever the buffers gave
compareLeafNodeDataBoth(firstLeaf, secondLeaf, mask, d, settings, tolerance, beyond) ==
    Only({Only({IF a.exc # "" THEN a ELSE Compared(b.returned /\ a.returned, a.data) :
                a \in {compareAttributes(firstLeaf, secondLeaf, b.data, settings, beyond)}}) :
          b \in {compareLeafBuffers(firstLeaf, secondLeaf, mask, d, settings, tolerance)}})

\* lines 1193-1194: the condition of the if, and *data after it
compareLeafNodeData(firstLeaf, secondLeaf, mask, d, settings, tolerance, beyond) ==
    Only({IF ~b.returned THEN b
          ELSE compareAttributes(firstLeaf, secondLeaf, b.data, settings, beyond) :
          b \in {compareLeafBuffers(firstLeaf, secondLeaf, mask, d, settings, tolerance)}})

\* a grid: its transform and, for every origin, its leaf node or Null
Grid(transform, leaves) == [transform |-> transform, leaves |-> leaves]

\* tree.probeConstLeaf(origin)
probeConstLeaf(grid, origin) == grid.leaves[origin]

\* tree.leafCount()
leafCount(grid) == Cardinality({o \in Origins : grid.leaves[o] # Null})

\* the active voxels a grid has at an origin
ActiveAt(grid, o) == IF grid.leaves[o] = Null THEN {} ELSE grid.leaves[o][1].mask

\* tree.hasSameTopology(other): the same leaf nodes with the same value masks
hasSameTopology(firstGrid, secondGrid) ==
    \A o \in Origins :
        /\ (firstGrid.leaves[o] = Null) <=> (secondGrid.leaves[o] = Null)
        /\ ActiveAt(firstGrid, o) = ActiveAt(secondGrid, o)

\* lines 1267-1276: the value mask the mask grid has at an origin; maskGrid is
\* Null or points to the value masks of a mask grid
MaskAt(firstGrid, secondGrid, maskGrid, o) ==
    IF maskGrid # Null THEN maskGrid[1][o]
    ELSE ActiveAt(firstGrid, o) \cup ActiveAt(secondGrid, o)

\* a leaf of the LeafManager
MaskLeaf(origin, valueMask) == [origin |-> origin, valueMask |-> valueMask]

\* lines 1276-1277: the leaves of the pruned mask tree from origin o on, in the
\* order of the LeafManager
RECURSIVE maskLeavesFrom(_, _, _, _)
maskLeavesFrom(firstGrid, secondGrid, maskGrid, o) ==
    IF o > MaxLeaves THEN <<>>
    ELSE (IF MaskAt(firstGrid, secondGrid, maskGrid, o) = {} THEN <<>>
          ELSE <<MaskLeaf(o, MaskAt(firstGrid, secondGrid, maskGrid, o))>>)
         \o maskLeavesFrom(firstGrid, secondGrid, maskGrid, o + 1)

\* the locals of compareGrids and the voxels set in the two grids of resultData
Locals(result, flag, differingTopology, differingValues) ==
    [result |-> result, flag |-> flag, differingTopology |-> differingTopology,
     differingValues |-> differingValues]

\* lines 1227-1249: result and flag after the check of the transforms
transformsChecked(firstGrid, secondGrid, settings) ==
    IF settings.mCheckTransforms
    THEN Locals(firstGrid.transform = secondGrid.transform,
                firstGrid.transform = secondGrid.transform, {}, {})
    ELSE Locals(TRUE, TRUE, {}, {})

\* lines 1260-1265 with result = flag for result &= flag
topologyCheckedResets(l, firstGrid, secondGrid, settings, maskGrid) ==
    IF settings.mCheckTopologyStructure /\ maskGrid = Null
    THEN Locals(hasSameTopology(firstGrid, secondGrid),
                hasSameTopology(firstGrid, secondGrid), {}, {})
    ELSE Locals(l.result, FALSE, {}, {})

\* lines 1260-1265 after flag was set in line 1253
topologyChecked(l, firstGrid, secondGrid, settings, maskGrid) ==
    IF settings.mCheckTopologyStructure /\ maskGrid = Null
    THEN Locals(l.result /\ hasSameTopology(firstGrid, secondGrid),
                hasSameTopology(firstGrid, secondGrid), {}, {})
    ELSE Locals(l.result, FALSE, {}, {})

\* where a leaf task is, and the slots of data it has written
Task(at, wrote) == [at |-> at, wrote |-> wrote]

\* mDiagnosticData[index] of every task being the first slot
SlotOfFirst(index) == 1

\* line 1180: the slot of the task with the given index (from 1)
Slot(index) == index

\* the voxels of the leaves whose flags of the given kind are false (lines
\* 1345-1358 and 1364-1377)
Differing(leaves, d, kind) ==
    {v \in Origins \X Offsets :
        \E i \in 1..Len(d) :
            /\ leaves[i].origin = v[1]
            /\ d[i] # Null
            /\ d[i][1].mValid
            /\ d[i][1][kind] # Null
            /\ ~d[i][1][kind][1][v[2] + 1]}

\* lines 1289-1409 after leafManager.foreach(op) has returned
leavesChecked(l, leaves, d) ==
    IF \A i \in 1..Len(d) : d[i] = Null
    THEN Locals(l.result, TRUE, {}, {})
    ELSE Locals(FALSE, FALSE, Differing(leaves, d, "mVoxelTopologyFlags"),
                Differing(leaves, d, "mVoxelValueFlags"))

\* the indices the two functions were called with so far
FlagCalls(topology, value) == [topology |-> topology, value |-> value]

NoCall == [fn |-> "none"]

\* no comparison is going on
NoComparison ==
    /\ stage = "idle"
    /\ call = NoCall
    /\ diagnostic = DiagnosticData
    /\ flagCalls = FlagCalls({}, {})
    /\ data = <<>>
    /\ tasks = <<>>
    /\ local = Locals(TRUE, TRUE, {}, {})

---------------------------------------------------------------------------
(* The kernel pass of an executable (specification 4.5, 4.8 and 5).  The   *)
(* executable is not part of the sources at hand; the pass is modelled as  *)
(* the specification describes it.  A leaf holds the offsets of its active *)
(* voxels and, for every attribute, an array with a value per voxel.       *)

VolumeLeaf(mask, arrays) == [mask |-> mask, arrays |-> arrays]

\* the kernels of scenarios 1 and 2:  @density = @density + 1;  and
\* i@count = 0; if (@density > 0) i@count = 1;
Kernels == {"increment", "count"}

\* the attribute registry of a kernel, in registration order
Registry(kernel) == IF kernel = "increment" THEN <<"density">> ELSE <<"density", "count">>

Registered(kernel) == {Registry(kernel)[k] : k \in 1..Len(Registry(kernel))}

\* the attribute a kernel has write access to
Written(kernel) == IF kernel = "increment" THEN "density" ELSE "count"

\* the statements of a kernel, in source order, on the values loaded for a voxel
RunKernel(kernel, voxel) ==
    IF kernel = "increment" THEN [voxel EXCEPT !["density"] = @ + 1]
    ELSE [[voxel EXCEPT !["count"] = 0] EXCEPT !["count"] = IF voxel["density"] > 0 THEN 1 ELSE @]

\* 4.8: every attribute of the registry that the grid does not have is created
\* with its default value
createAttributes(g, kernel) ==
    [o \in Origins |->
        IF g[o] = Null THEN Null
        ELSE Ptr(VolumeLeaf(g[o][1].mask,
                 [name \in DOMAIN g[o][1].arrays \cup Registered(kernel) |->
                     IF name \in DOMAIN g[o][1].arrays THEN g[o][1].arrays[name]
                     ELSE [n \in 1..LeafSize |-> 0]]))]

\* one table of base pointers for all leaves, the one of the last leaf
pointerTablesShared(leaves, registered) ==
    [o \in leaves |->
        [name \in registered |-> <<CHOOSE m \in leaves : \A k \in leaves : k <= m, name>>]]

\* 4.8: the table of the base pointers of the attributes, per leaf
pointerTables(leaves, registered) ==
    [o \in leaves |-> [name \in registered |-> <<o, name>>]]

\* 4.5: a load from and a store to attribute_ptrs[index] at the offset of the
\* current voxel
Load(g, pointer, n) == g[pointer[1]][1].arrays[pointer[2]][n + 1]

Store(g, pointer, n, value) ==
    [g EXCEPT ![pointer[1]] = Ptr([@[1] EXCEPT !.arrays[pointer[2]][n + 1] = value])]

\* the call of the kernel for the voxel at offset n with the table of a leaf
kernelCall(g, table, kernel, n) ==
    Store(g, table[Written(kernel)], n,
          RunKernel(kernel, [name \in Registered(kernel) |-> Load(g, table[name], n)])
              [Written(kernel)])

\* the task of a leaf
Worker(todo, wrote) == [todo |-> todo, wrote |-> wrote]

\* no pass is going on
NoPass ==
    /\ pass = [stage |-> "idle"]
    /\ volume = [o \in Origins |-> Null]
    /\ workers = [o \in Origins |-> Worker({}, {})]

---------------------------------------------------------------------------
(* The calls.  args records what a call was given: a and b are its values  *)
(* (value; lhs and rhs), typeA and typeB its types (typeA and typeB;       *)
(* sourceType and targetType; type), token and warningsGiven as in         *)
(* binaryOperator.                                                         *)

Args(a, b, typeA, typeB, token, warningsGiven) ==
    [a |-> a, b |-> b, typeA |-> typeA, typeB |-> typeB, token |-> token,
     warningsGiven |-> warningsGiven]

NoArgs == Args(NoValue, NoValue, "void", "void", "", FALSE)

\* one value of each type
TypeSample(t) ==
    IF isIntegerTy(t) THEN IntV(t, {})
    ELSE IF isFloatingPointTy(t) THEN NumV(t, 0, 1)
    ELSE AggV(t)

\* the operand pairs binaryOperator is given: every pair of sample values of one
\* type, and for every two different types the pair of their samples
Operands ==
    {<<l, r>> \in Values \X Values :
        l.type = r.type \/ (l = TypeSample(l.type) /\ r = TypeSample(r.type))}

\* the values arrays and vectors are filled with: of each scalar type zero, a
\* value that is not a whole positive number, and an extreme
ElementSamples(t) ==
    IF t = "i1" THEN {Bool(FALSE), Bool(TRUE)}
    ELSE IF isIntegerTy(t)
    THEN {IntV(t, {}), IntV(t, ToBits(0 - 2, BitWidth(t))), IntV(t, IntMax(BitWidth(t)))}
    ELSE {NumV(t, 0, 1), NumV(t, 0 - 3, 2), NaNV(t)}

\* the sequences of 1 to n elements of S
SeqsUpTo(S, n) == UNION {[1..k -> S] : k \in 1..n}

\* the arrays of scalars a caller has on the stack
SourceArrays ==
    UNION {{ArrayOf(t, e) : e \in SeqsUpTo(ElementSamples(t), MaxLen)} : t \in ScalarTypes}

Init ==
    /\ pc = "idle"
    /\ op = "none"
    /\ args = NoArgs
    /\ ret = NoOutcome
    /\ warnings = ""
    /\ ndebug \in BOOLEAN
    /\ mem = <<>>
    /\ values = <<>>
    /\ given = NoGiven
    /\ NoComparison
    /\ NoPass

CallTypePrecedence ==
    /\ pc = "idle"
    /\ \E typeA \in Types, typeB \in Types :
         /\ op' = "typePrecedence"
         /\ args' = Args(NoValue, NoValue, typeA, typeB, "", FALSE)
         /\ ret' = typePrecedence(typeA, typeB)
    /\ pc' = "done"
    /\ UNCHANGED <<warnings, ndebug, mem, values, given>>
    /\ UNCHANGED <<compareVars, kernelVars>>

CallArithmeticConversion ==
    /\ pc = "idle"
    /\ \E value \in Values, targetType \in Types :
         /\ op' = "arithmeticConversion"
         /\ args' = Args(value, NoValue, value.type, targetType, "", FALSE)
         /\ ret' = arithmeticConversion(value, targetType)
    /\ pc' = "done"
    /\ UNCHANGED <<warnings, ndebug, mem, values, given>>
    /\ UNCHANGED <<compareVars, kernelVars>>

CallLlvmArithmeticConversion ==
    /\ pc = "idle"
    /\ \E sourceType \in Types, targetType \in Types :
         /\ op' = "llvmArithmeticConversion"
         /\ args' = Args(NoValue, NoValue, sourceType, targetType, "", FALSE)
         /\ ret' = llvmArithmeticConversion(sourceType, targetType)
    /\ pc' = "done"
    /\ UNCHANGED <<warnings, ndebug, mem, values, given>>
    /\ UNCHANGED <<compareVars, kernelVars>>

CallLlvmBinaryConversion ==
    /\ pc = "idle"
    /\ \E type \in Types, token \in Tokens :
         /\ op' = "llvmBinaryConversion"
         /\ args' = Args(NoValue, NoValue, type, "void", token, FALSE)
         /\ ret' = llvmBinaryConversion(type, token)
    /\ pc' = "done"
    /\ UNCHANGED <<warnings, ndebug, mem, values, given>>
    /\ UNCHANGED <<compareVars, kernelVars>>

CallBoolComparison ==
    /\ pc = "idle"
    /\ \E value \in Values :
         /\ op' = "boolComparison"
         /\ args' = Args(value, NoValue, value.type, "void", "", FALSE)
         /\ ret' = boolComparison(value)
    /\ pc' = "done"
    /\ UNCHANGED <<warnings, ndebug, mem, values, given>>
    /\ UNCHANGED <<compareVars, kernelVars>>

CallBinaryOperator ==
    /\ pc = "idle"
    /\ \E operands \in Operands, token \in Tokens, warningsGiven \in BOOLEAN :
         \E e \in {binaryOperator(operands[1], operands[2], token, warningsGiven)} :
             /\ op' = "binaryOperator"
             /\ args' = Args(operands[1], operands[2], operands[1].type, operands[2].type,
                             token, warningsGiven)
             /\ ret' = e.outcome
             /\ warnings' = e.warnings
    /\ pc' = "done"
    /\ UNCHANGED <<ndebug, mem, values, given>>
    /\ UNCHANGED <<compareVars, kernelVars>>

\* the caller has the array source on the stack and hands in a pointer to it
CallArrayCast ==
    /\ pc = "idle"
    /\ \E source \in SourceArrays, targetElementType \in Types :
         \E r \in {arrayCast(Builder(<<>>, <<source>>), PtrV(1), targetElementType)} :
             /\ op' = "arrayCast"
             /\ args' = Args(PtrV(1), NoValue, source.type, targetElementType, "", FALSE)
             /\ given' = Given(<<source>>, <<>>)
             /\ ret' = r.outcome
             /\ mem' = r.mem
             /\ values' = r.values
    /\ pc' = "done"
    /\ UNCHANGED <<warnings, ndebug>>
    /\ UNCHANGED <<compareVars, kernelVars>>

\* three values of one scalar type, and of every three types their samples
Triples ==
    UNION {[1..3 -> ElementSamples(t)] : t \in ScalarTypes}
    \cup {<<TypeSample(t1), TypeSample(t2), TypeSample(t3)>> : t1, t2, t3 \in Types}

\* the values vectors are filled with: of each scalar type two values that the
\* conversions tell apart, and a value that is no scalar
VectorSamples ==
    {Bool(TRUE), NumV("float", 0 - 3, 2), NumV("double", 5, 2), AggV("array")}
    \cup UNION {{IntV(t, ToBits(0 - 2, BitWidth(t))), IntV(t, ToBits(1, BitWidth(t)))} :
                t \in IntegerTypes \ {"i1"}}
    \cup {Bool(FALSE), NumV("float", 2, 1), NaNV("double")}

\* the vectors of 1 to MaxLen values
Vectors == SeqsUpTo(VectorSamples, MaxLen)

CallArrayPackCast ==
    /\ pc = "idle"
    /\ \E vector \in Vectors :
         \E r \in {arrayPackCast(Builder(<<>>, <<>>), vector)} :
             /\ given' = Given(<<>>, vector)
             /\ ret' = r.outcome
             /\ mem' = r.mem
             /\ values' = r.values
    /\ op' = "arrayPackCast"
    /\ args' = NoArgs
    /\ pc' = "done"
    /\ UNCHANGED <<warnings, ndebug>>
    /\ UNCHANGED <<compareVars, kernelVars>>

\* the chars strings are made of: the null char, a letter, a char above 127
CharSamples == {IntV("i8", ToBits(c, BitWidth("i8"))) : c \in {0, 65, 200}}

\* the strings of up to MaxLen chars
Strings == {<<>>} \cup SeqsUpTo(CharSamples, MaxLen)

\* args.b is charIsSigned
CallLlvmStringToValue ==
    /\ pc = "idle"
    /\ \E string \in Strings, charIsSigned \in BOOLEAN :
         \E r \in {llvmStringToValue(Builder(<<>>, <<>>), string, charIsSigned)} :
             /\ given' = Given(<<>>, string)
             /\ args' = Args(NoValue, Bool(charIsSigned), "void", "i1", "", FALSE)
             /\ ret' = r.outcome
             /\ mem' = r.mem
             /\ values' = r.values
    /\ op' = "llvmStringToValue"
    /\ pc' = "done"
    /\ UNCHANGED <<warnings, ndebug>>
    /\ UNCHANGED <<compareVars, kernelVars>>

\* args.b is llvmAsserts
CallArithmeticConversionHighest ==
    /\ pc = "idle"
    /\ \E vector \in Vectors \cup Triples, llvmAsserts \in BOOLEAN :
         \E r \in {arithmeticConversionHighest(Builder(<<>>, <<>>), vector, llvmAsserts)} :
             /\ given' = Given(<<>>, vector)
             /\ args' = Args(NoValue, Bool(llvmAsserts), "void", "i1", "", FALSE)
             /\ ret' = r.outcome
             /\ mem' = r.mem
             /\ values' = r.values
    /\ op' = "arithmeticConversionHighest"
    /\ pc' = "done"
    /\ UNCHANGED <<warnings, ndebug>>
    /\ UNCHANGED <<compareVars, kernelVars>>

\* the argument types of the call sites
ArgumentLists ==
    {<<"i32", "i32">>, <<"f64", "i32">>, <<"i16", "i64">>, <<"string", "i32">>, <<"f32">>}

\* the parameter types of the signatures declared
ParameterLists ==
    [1..2 -> {"i32", "f32", "f64"}] \cup {<<"f32">>, <<"string", "i32">>, <<"i64", "i16">>}

\* a function group has at least one signature
SignatureLists == SeqsUpTo(ParameterLists, MaxLen)

\* given holds the signatures and the argument types
CallSelectOverload ==
    /\ pc = "idle"
    /\ \E A \in ArgumentLists, signatures \in SignatureLists :
         \E r \in {selectOverload(A, signatures)} :
             /\ given' = Given(signatures, A)
             /\ ret' = r.outcome
             /\ mem' = r.mem
             /\ values' = r.values
    /\ args' = NoArgs
    /\ op' = "selectOverload"
    /\ pc' = "done"
    /\ UNCHANGED <<warnings, ndebug>>
    /\ UNCHANGED <<compareVars, kernelVars>>

CallArray3Pack ==
    /\ pc = "idle"
    /\ \E v \in Triples :
         \E r \in {array3Pack(Builder(<<>>, <<>>), v[1], v[2], v[3])} :
             /\ op' = "array3Pack"
             /\ args' = Args(v[1], v[2], v[1].type, v[2].type, "", FALSE)
             /\ given' = Given(<<>>, v)
             /\ ret' = r.outcome
             /\ mem' = r.mem
             /\ values' = r.values
    /\ pc' = "done"
    /\ UNCHANGED <<warnings, ndebug>>
    /\ UNCHANGED <<compareVars, kernelVars>>

\* the caller unpacks the array array3Pack has returned into an empty vector;
\* args.b is loadElements
CallArrayUnpack ==
    /\ pc = "done"
    /\ op = "array3Pack"
    /\ ret.status = "ok"
    /\ \E loadElements \in BOOLEAN :
         \E r \in {arrayUnpack(Builder(ret.code, mem), ret.val, <<>>, loadElements)} :
             /\ args' = Args(ret.val, Bool(loadElements), "ptr", "i1", "", FALSE)
             /\ ret' = r.outcome
             /\ mem' = r.mem
             /\ values' = r.values
    /\ op' = "arrayUnpack"
    /\ UNCHANGED <<pc, warnings, ndebug, given>>
    /\ UNCHANGED <<compareVars, kernelVars>>

\* the caller unpacks the array array3Pack has returned
CallArray3Unpack ==
    /\ pc = "done"
    /\ op = "array3Pack"
    /\ ret.status = "ok"
    /\ \E r \in {array3Unpack(Builder(ret.code, mem), ret.val)} :
         /\ args' = Args(ret.val, NoValue, "ptr", "void", "", FALSE)
         /\ ret' = r.outcome
         /\ mem' = r.mem
         /\ values' = r.values
    /\ op' = "array3Unpack"
    /\ UNCHANGED <<pc, warnings, ndebug, given>>
    /\ UNCHANGED <<compareVars, kernelVars>>

\* the caller takes the outcome; a failed assert has ended the process
Consume ==
    /\ pc = "done"
    /\ ret.status # "abort"
    /\ pc' = "idle"
    /\ op' = "none"
    /\ args' = NoArgs
    /\ ret' = NoOutcome
    /\ mem' = <<>>
    /\ values' = <<>>
    /\ given' = NoGiven
    /\ UNCHANGED <<warnings, ndebug>>
    /\ UNCHANGED <<compareVars, kernelVars>>

Next ==
    \/ CallTypePrecedence
    \/ CallLlvmArithmeticConversion
    \/ CallLlvmBinaryConversion
    \/ CallArithmeticConversion
    \/ CallBoolComparison
    \/ CallBinaryOperator
    \/ CallArrayCast
    \/ CallArray3Pack
    \/ CallArrayPackCast
    \/ CallLlvmStringToValue
    \/ CallArithmeticConversionHighest
    \/ CallSelectOverload
    \/ CallArrayUnpack
    \/ CallArray3Unpack
    \/ Consume

Spec == Init /\ [][Next]_vars

---------------------------------------------------------------------------
(* The grid comparison.  A test constructs a DiagnosticData and flags       *)
(* voxels in it, or calls one of the functions of the comparison.          *)

CompareInit ==
    /\ pc = "idle"
    /\ op = "none"
    /\ args = NoArgs
    /\ ret = NoOutcome
    /\ warnings = ""
    /\ ndebug \in BOOLEAN
    /\ mem = <<>>
    /\ values = <<>>
    /\ given = NoGiven
    /\ NoComparison
    /\ NoPass

\* DiagnosticData()
NewDiagnosticData ==
    /\ stage = "idle"
    /\ stage' = "flagging"
    /\ call' = [fn |-> "DiagnosticData"]
    /\ diagnostic' = DiagnosticData
    /\ flagCalls' = FlagCalls({}, {})
    /\ UNCHANGED <<data, tasks, local>>
    /\ UNCHANGED <<callVars, kernelVars>>

FlagVoxelTopology ==
    /\ stage = "flagging"
    /\ \E idx \in Offsets :
         /\ diagnostic' = flagVoxelTopology(diagnostic, idx)
         /\ flagCalls' = [flagCalls EXCEPT !.topology = @ \cup {idx}]
    /\ UNCHANGED <<stage, call, data, tasks, local>>
    /\ UNCHANGED <<callVars, kernelVars>>

FlagVoxelValue ==
    /\ stage = "flagging"
    /\ \E idx \in Offsets :
         /\ diagnostic' = flagVoxelValue(diagnostic, idx)
         /\ flagCalls' = [flagCalls EXCEPT !.value = @ \cup {idx}]
    /\ UNCHANGED <<stage, call, data, tasks, local>>
    /\ UNCHANGED <<callVars, kernelVars>>

\* the values of the voxels
VoxelValues == {0, 1}

\* the leaves whose buffer is allocated, and the one whose buffer is not
AllocatedLeaves ==
    {Leaf(m, [n \in 1..LeafSize |-> b[n - 1]]) : m \in SUBSET Offsets,
                                                   b \in [Offsets -> VoxelValues]}

UnallocatedLeaf == Leaf({}, <<>>)

\* the pairs of leaves compareLeafBuffers is given: their buffers hold a value
\* for every voxel (line 974), or one of the two is not allocated
LeafPairs ==
    (AllocatedLeaves \X AllocatedLeaves)
    \cup {<<l, UnallocatedLeaf>> : l \in AllocatedLeaves}
    \cup {<<UnallocatedLeaf, l>> : l \in AllocatedLeaves}

\* the settings that differ in what compareLeafBuffers reads
BufferSettings ==
    {Settings(TRUE, TRUE, TRUE, a, b, TRUE, TRUE) : a \in BOOLEAN, b \in BOOLEAN}

\* the DiagnosticData handed in is a new one, as CompareLeafNodes hands it in
CallCompareLeafBuffers ==
    /\ stage = "idle"
    /\ \E leaves \in LeafPairs, mask \in SUBSET Offsets, settings \in BufferSettings,
          tolerance \in 0..1 :
         \E r \in {compareLeafBuffers(leaves[1], leaves[2], mask, DiagnosticData, settings,
                                      tolerance)} :
             /\ call' = [fn |-> "compareLeafBuffers", firstLeaf |-> leaves[1],
                         secondLeaf |-> leaves[2], mask |-> mask, settings |-> settings,
                         tolerance |-> tolerance, returned |-> r.returned]
             /\ diagnostic' = r.data
    /\ stage' = "called"
    /\ UNCHANGED <<flagCalls, data, tasks, local>>
    /\ UNCHANGED <<callVars, kernelVars>>

\* the leaves of the grids of values that are compared: all voxels active and
\* 0; the last voxel 1; the first voxel active only; no voxel active
ZeroLeaf == Leaf(Offsets, [n \in 1..LeafSize |-> 0])

LastOneLeaf == Leaf(Offsets, [n \in 1..LeafSize |-> IF n = LeafSize THEN 1 ELSE 0])

FirstActiveLeaf == Leaf({0}, [n \in 1..LeafSize |-> 0])

InactiveLeaf == Leaf({}, [n \in 1..LeafSize |-> 0])

InactiveLastOneLeaf == Leaf({}, [n \in 1..LeafSize |-> IF n = LeafSize THEN 1 ELSE 0])

\* what the two grids of values have at the first origin
ValueSamples ==
    {<<Null, Null>>, <<Ptr(ZeroLeaf), Null>>, <<Null, Ptr(ZeroLeaf)>>,
     <<Ptr(ZeroLeaf), Ptr(ZeroLeaf)>>, <<Ptr(ZeroLeaf), Ptr(LastOneLeaf)>>,
     <<Ptr(ZeroLeaf), Ptr(FirstActiveLeaf)>>, <<Ptr(InactiveLeaf), Null>>,
     <<Ptr(InactiveLeaf), Ptr(InactiveLastOneLeaf)>>}

\* and at every other origin
OtherValueSamples ==
    {<<Null, Null>>, <<Ptr(ZeroLeaf), Ptr(ZeroLeaf)>>, <<Ptr(ZeroLeaf), Null>>}

\* the leaves of the point data grids: a point in every voxel, or in every voxel
\* but the last
EveryVoxel == [n \in 1..LeafSize |-> n]

AllButLast == [n \in 1..LeafSize |-> IF n = LeafSize THEN n - 1 ELSE n]

\* the attribute P with a value per point, the last one being last
Position(type, codec, flags, points, last) ==
    [name \in {"P"} |->
        AttributeArray(type, codec, flags, [i \in 1..points |-> IF i = points THEN last ELSE 0])]

PointsLeaf == PointLeaf(Offsets, EveryVoxel, Position("vec3s", "null", 0, LeafSize, 0))

\* PointsLeaf with the attribute id added
WithId ==
    [name \in {"P", "id"} |->
        IF name = "P" THEN PointsLeaf.attributes["P"]
        ELSE AttributeArray("int32", "null", 0, [i \in 1..LeafSize |-> 0])]

\* what the two point data grids have at the first origin: the same leaf; a
\* value that differs; a descriptor that differs; a type that differs; a type
\* that is not compared, with the same buffers and with buffers that differ; an
\* array that is shorter; flags that differ; strings that differ
PointSamples ==
    {<<Ptr(PointsLeaf), Ptr(PointsLeaf)>>,
     <<Ptr(PointsLeaf),
       Ptr(PointLeaf(Offsets, EveryVoxel, Position("vec3s", "null", 0, LeafSize, 1)))>>,
     <<Ptr(PointsLeaf), Ptr(PointLeaf(Offsets, EveryVoxel, WithId))>>,
     <<Ptr(PointsLeaf),
       Ptr(PointLeaf(Offsets, EveryVoxel, Position("float", "null", 0, LeafSize, 0)))>>,
     <<Ptr(PointLeaf(Offsets, EveryVoxel, Position("quats", "null", 0, LeafSize, 0))),
       Ptr(PointLeaf(Offsets, EveryVoxel, Position("quats", "null", 0, LeafSize, 0)))>>,
     <<Ptr(PointLeaf(Offsets, EveryVoxel, Position("quats", "null", 0, LeafSize, 0))),
       Ptr(PointLeaf(Offsets, AllButLast, Position("quats", "null", 0, LeafSize - 1, 0)))>>,
     <<Ptr(PointsLeaf),
       Ptr(PointLeaf(Offsets, AllButLast, Position("vec3s", "null", 0, LeafSize - 1, 0)))>>,
     <<Ptr(PointsLeaf),
       Ptr(PointLeaf(Offsets, EveryVoxel, Position("vec3s", "null", 1, LeafSize, 0)))>>,
     <<Ptr(PointLeaf(Offsets, EveryVoxel, Position("string", "str", 0, LeafSize, 0))),
       Ptr(PointLeaf(Offsets, EveryVoxel, Position("string", "str", 0, LeafSize, 1)))>>}

OtherPointSamples ==
    {<<Null, Null>>, <<Ptr(PointsLeaf), Ptr(PointsLeaf)>>, <<Ptr(PointsLeaf), Null>>}

\* the two grids, of the same GridType, with the transform of the first being 0
GridsOf(samples, others) ==
    {<<Grid(0, [o \in Origins |-> IF o = 1 THEN s[1] ELSE r[o][1]]),
       Grid(t, [o \in Origins |-> IF o = 1 THEN s[2] ELSE r[o][2]])>> :
        s \in samples, r \in [Origins \ {1} -> others], t \in 0..1}

GridPairs == GridsOf(ValueSamples, OtherValueSamples) \cup GridsOf(PointSamples, OtherPointSamples)

\* no mask grid; the first voxel of every origin; every voxel of the first origin
MaskGrids ==
    {Null, Ptr([o \in Origins |-> {0}]),
     Ptr([o \in Origins |-> IF o = 1 THEN Offsets ELSE {}])}

\* all checks, all but one, and none
GridSettings ==
    {Settings(k # 1, k # 2, k # 3, k # 4, k # 5, k # 6, k # 7) : k \in 0..7}
    \cup {Settings(FALSE, FALSE, FALSE, FALSE, FALSE, FALSE, FALSE)}

\* the values a read past the end of an attribute array can give: there is
\* such a read when the second array of a common attribute is the shorter one
AttributeValues == {0, 1}

ReadsBeyond(firstGrid, secondGrid) ==
    \E o \in Origins :
        /\ firstGrid.leaves[o] # Null
        /\ secondGrid.leaves[o] # Null
        /\ "attributes" \in DOMAIN firstGrid.leaves[o][1]
        /\ \E name \in DOMAIN firstGrid.leaves[o][1].attributes
                       \cap DOMAIN secondGrid.leaves[o][1].attributes :
              Len(secondGrid.leaves[o][1].attributes[name].values)
                  < PointCount(firstGrid.leaves[o][1])

\* lines 1227-1285 and, when both grids have no leaf, the return of line 1257
CallCompareGrids ==
    /\ stage = "idle"
    /\ \E grids \in GridPairs, settings \in GridSettings, maskGrid \in MaskGrids :
         \E beyond \in IF ReadsBeyond(grids[1], grids[2]) THEN AttributeValues ELSE {0} :
           \E leaves \in {IF leafCount(grids[1]) = 0 /\ leafCount(grids[2]) = 0 THEN <<>>
                          ELSE maskLeavesFrom(grids[1], grids[2], maskGrid, 1)} :
             /\ call' = [fn |-> "compareGrids", firstGrid |-> grids[1],
                         secondGrid |-> grids[2], settings |-> settings,
                         maskGrid |-> maskGrid, tolerance |-> 0, beyond |-> beyond,
                         leaves |-> leaves]
             /\ IF leafCount(grids[1]) = 0 /\ leafCount(grids[2]) = 0
                THEN /\ stage' = "returned"
                     /\ local' = [transformsChecked(grids[1], grids[2], settings)
                                     EXCEPT !.flag = TRUE]
                     /\ data' = <<>>
                     /\ tasks' = <<>>
                ELSE /\ stage' = "foreach"
                     /\ local' = topologyChecked(
                                     transformsChecked(grids[1], grids[2], settings),
                                     grids[1], grids[2], settings, maskGrid)
                     /\ data' = [i \in 1..Len(leaves) |-> Null]
                     /\ tasks' = [i \in 1..Len(leaves) |-> Task("start", {})]
    /\ UNCHANGED <<diagnostic, flagCalls>>
    /\ UNCHANGED <<callVars, kernelVars>>

\* the leaves the task with the given index is called for
FirstLeafNode(index) == probeConstLeaf(call.firstGrid, call.leaves[index].origin)

SecondLeafNode(index) == probeConstLeaf(call.secondGrid, call.leaves[index].origin)

\* lines 1169-1181 of op(leaf, index) for a leaf of the LeafManager
TaskBegin ==
    /\ stage = "foreach"
    /\ \E index \in 1..Len(tasks) :
         /\ tasks[index].at = "start"
         /\ IF FirstLeafNode(index) = Null /\ SecondLeafNode(index) = Null
            THEN /\ tasks' = [tasks EXCEPT ![index].at = "done"]
                 /\ data' = data
            ELSE /\ tasks' = [tasks EXCEPT ![index] =
                                 Task("new", tasks[index].wrote \cup {Slot(index)})]
                 /\ data' = [data EXCEPT ![Slot(index)] = Ptr(DiagnosticData)]
    /\ UNCHANGED <<stage, call, diagnostic, flagCalls, local>>
    /\ UNCHANGED <<callVars, kernelVars>>

\* lines 1183-1194
TaskCompare ==
    /\ stage = "foreach"
    /\ \E index \in 1..Len(tasks) :
         /\ tasks[index].at = "new"
         /\ IF (FirstLeafNode(index) # Null) # (SecondLeafNode(index) # Null)
            THEN /\ data' = [data EXCEPT ![Slot(index)] = Ptr([@[1] EXCEPT !.mValid = FALSE])]
                 /\ tasks' = [tasks EXCEPT ![index].at = "done"]
            ELSE \E r \in {compareLeafNodeData(FirstLeafNode(index)[1],
                               SecondLeafNode(index)[1], call.leaves[index].valueMask,
                               data[Slot(index)][1], call.settings, call.tolerance,
                               call.beyond)} :
                   /\ data' = [data EXCEPT ![Slot(index)] = Ptr(r.data)]
                   /\ tasks' = [tasks EXCEPT ![index].at =
                                   IF r.exc # "" THEN "thrown"
                                   ELSE IF r.returned THEN "equal" ELSE "done"]
    /\ UNCHANGED <<stage, call, diagnostic, flagCalls, local>>
    /\ UNCHANGED <<callVars, kernelVars>>

\* line 1195
TaskReset ==
    /\ stage = "foreach"
    /\ \E index \in 1..Len(tasks) :
         /\ tasks[index].at = "equal"
         /\ data' = [data EXCEPT ![Slot(index)] = Null]
         /\ tasks' = [tasks EXCEPT ![index].at = "done"]
    /\ UNCHANGED <<stage, call, diagnostic, flagCalls, local>>
    /\ UNCHANGED <<callVars, kernelVars>>

\* lines 1289-1409: foreach has returned, every task having returned
Join ==
    /\ stage = "foreach"
    /\ \A index \in 1..Len(tasks) : tasks[index].at = "done"
    /\ local' = leavesChecked(local, call.leaves, data)
    /\ stage' = "returned"
    /\ UNCHANGED <<call, diagnostic, flagCalls, data, tasks>>
    /\ UNCHANGED <<callVars, kernelVars>>

\* line 1287: foreach throws what a task has thrown once no task is running;
\* the tasks that have not started are cancelled
Rethrow ==
    /\ stage = "foreach"
    /\ \E index \in 1..Len(tasks) : tasks[index].at = "thrown"
    /\ \A index \in 1..Len(tasks) : tasks[index].at \in {"start", "done", "thrown"}
    /\ stage' = "thrown"
    /\ UNCHANGED <<call, diagnostic, flagCalls, data, tasks, local>>
    /\ UNCHANGED <<callVars, kernelVars>>

\* the test is over: what it constructed is destroyed
Finish ==
    /\ stage \in {"flagging", "called", "returned", "thrown"}
    /\ stage' = "idle"
    /\ call' = NoCall
    /\ diagnostic' = DiagnosticData
    /\ flagCalls' = FlagCalls({}, {})
    /\ data' = <<>>
    /\ tasks' = <<>>
    /\ local' = Locals(TRUE, TRUE, {}, {})
    /\ UNCHANGED <<callVars, kernelVars>>

CompareNext ==
    \/ NewDiagnosticData
    \/ FlagVoxelTopology
    \/ FlagVoxelValue
    \/ CallCompareLeafBuffers
    \/ CallCompareGrids
    \/ TaskBegin
    \/ TaskCompare
    \/ TaskReset
    \/ Join
    \/ Rethrow
    \/ Finish

CompareSpec == CompareInit /\ [][CompareNext]_vars

\* the kernel pass starts from the state in which nothing is being called
KernelInit ==
    /\ pc = "idle"
    /\ op = "none"
    /\ args = NoArgs
    /\ ret = NoOutcome
    /\ warnings = ""
    /\ ndebug \in BOOLEAN
    /\ mem = <<>>
    /\ values = <<>>
    /\ given = NoGiven
    /\ NoComparison
    /\ NoPass

\* the leaves of the grids a pass is given: no, the first or every voxel
\* active, the density 0, or 1 in the last voxel
VolumeLeaves ==
    {VolumeLeaf(mask, [name \in {"density"} |->
                          [n \in 1..LeafSize |-> IF n = LeafSize THEN last ELSE 0]]) :
        mask \in {{}, {0}, Offsets}, last \in 0..1}

VolumeGrids == [Origins -> {Null} \cup {Ptr(leaf) : leaf \in VolumeLeaves}]

\* 4.8, VolumeExecutable.execute(grids), up to the start of the parallel pass
Execute ==
    /\ pass.stage = "idle"
    /\ \E input \in VolumeGrids, kernel \in Kernels :
         \E created \in {createAttributes(input, kernel)} :
           /\ pass' = [stage |-> "parallel", kernel |-> kernel, given |-> created,
                       tables |-> pointerTables({o \in Origins : input[o] # Null},
                                                Registered(kernel))]
           /\ volume' = created
           /\ workers' = [o \in Origins |->
                             Worker(IF created[o] = Null THEN {} ELSE created[o][1].mask, {})]
    /\ UNCHANGED <<callVars, compareVars>>

\* 4.8 and 5: the task of a leaf calls the kernel for one of its active voxels,
\* in any order; the call runs to completion
KernelCall ==
    /\ pass.stage = "parallel"
    /\ \E o \in Origins :
         \E n \in workers[o].todo :
           /\ volume' = kernelCall(volume, pass.tables[o], pass.kernel, n)
           /\ workers' = [workers EXCEPT ![o] =
                 Worker(@.todo \ {n},
                        @.wrote \cup {<<pass.tables[o][Written(pass.kernel)][1], n>>})]
    /\ UNCHANGED pass
    /\ UNCHANGED <<callVars, compareVars>>

\* the parallel pass is over once every task has called the kernel for all its
\* voxels
Completed ==
    /\ pass.stage = "parallel"
    /\ \A o \in Origins : workers[o].todo = {}
    /\ pass' = [pass EXCEPT !.stage = "finished"]
    /\ UNCHANGED <<volume, workers>>
    /\ UNCHANGED <<callVars, compareVars>>

\* the caller takes the grid
TakeGrid ==
    /\ pass.stage = "finished"
    /\ pass' = [stage |-> "idle"]
    /\ volume' = [o \in Origins |-> Null]
    /\ workers' = [o \in Origins |-> Worker({}, {})]
    /\ UNCHANGED <<callVars, compareVars>>

KernelNext ==
    \/ Execute
    \/ KernelCall
    \/ Completed
    \/ TakeGrid

KernelSpec == KernelInit /\ [][KernelNext]_vars

---------------------------------------------------------------------------
(* Properties.                                                             *)

\* the call op has returned, thrown or aborted
Done(o) == pc = "done" /\ op = o

\* the position of a scalar type in bool < i8 < i16 < i32 < i64 < f32 < f64
Rank(t) ==
    CASE t = "i1" -> 0
      [] t = "i8" -> 1
      [] t = "i16" -> 2
      [] t = "i32" -> 3
      [] t = "i64" -> 4
      [] t = "float" -> 5
      [] t = "double" -> 6

ScalarArgs == isScalarType(args.typeA) /\ isScalarType(args.typeB)

\* C1: for every pair of scalar types typePrecedence returns the greater of the
\* two under the order bool < i8 < i16 < i32 < i64 < f32 < f64.
C1_PrecedenceIsMax ==
    (Done("typePrecedence") /\ ScalarArgs) =>
        /\ ret.status = "ok"
        /\ ret.type = IF Rank(args.typeA) >= Rank(args.typeB) THEN args.typeA ELSE args.typeB

C1_Witness ==
    /\ Done("typePrecedence")
    /\ args.typeA = "i64"
    /\ args.typeB = "float"
    /\ ret.type = "float"

\* C2: for all scalar types a and b, typePrecedence(a, b) is one of a and b and
\* equals typePrecedence(b, a).
C2_PrecedenceTotal ==
    (Done("typePrecedence") /\ ScalarArgs) =>
        /\ ret.status = "ok"
        /\ ret.type \in {args.typeA, args.typeB}
        /\ ret = typePrecedence(args.typeB, args.typeA)

C2_Witness ==
    /\ Done("typePrecedence")
    /\ args.typeA = "i32"
    /\ args.typeB = "i64"
    /\ ret.type = "i64"

\* C3, as the specification states it: typePrecedence fails whenever one of its
\* arguments is not a scalar type, also when the other one is scalar: it never
\* returns a type then, and what it throws is a type error.  (The failed assert
\* of a build with assertions counts as failing here.)
C3_NonScalarFails ==
    (Done("typePrecedence") /\ ~ScalarArgs) =>
        /\ ret.status # "ok"
        /\ ret.status = "throw" => ret.exc = "LLVMTypeError"

\* the conversions the specification lists
ListedConversions ==
    {"CreateFPExt", "CreateFPTrunc", "CreateSExt", "CreateTrunc", "CreateSIToFP",
     "CreateFPToSI", "CreateUIToFP"}

DistinctScalarArgs == ScalarArgs /\ args.typeA # args.typeB

\* the conversion a finished cast between two distinct scalar types has selected:
\* the function llvmArithmeticConversion returned, or the one instruction
\* arithmeticConversion created
SelectedConversion ==
    IF op = "llvmArithmeticConversion" THEN ret.fn ELSE ret.code[1].create

CastDone ==
    /\ Done("llvmArithmeticConversion") \/ Done("arithmeticConversion")
    /\ DistinctScalarArgs

\* C4, as the specification states it: the cast between two distinct scalar types
\* selects exactly one conversion, one of the seven listed.
C4_ListedConversion ==
    CastDone =>
        /\ ret.status = "ok"
        /\ op = "arithmeticConversion" => Len(ret.code) = 1
        /\ SelectedConversion \in ListedConversions

\* C4, amended: the cast between two distinct scalar types selects exactly one
\* conversion: zero-extend exactly when bool is cast to a wider integer,
\* FP-to-unsigned-int exactly when a floating point type is cast to bool, and one
\* of the seven listed conversions otherwise.
C4_SelectedConversion ==
    CastDone =>
        /\ ret.status = "ok"
        /\ op = "arithmeticConversion" => Len(ret.code) = 1
        /\ SelectedConversion \in ListedConversions \cup {"CreateZExt", "CreateFPToUI"}
        /\ SelectedConversion = "CreateZExt"
               <=> (args.typeA = "i1" /\ isIntegerTy(args.typeB))
        /\ SelectedConversion = "CreateFPToUI"
               <=> (isFloatingPointTy(args.typeA) /\ args.typeB = "i1")

C4_Witness ==
    /\ Done("arithmeticConversion")
    /\ args.typeA = "i1"
    /\ args.typeB = "i16"
    /\ Len(ret.code) = 1
    /\ ret.code[1].create = "CreateZExt"

\* C5, as the specification states it: casting an integer of type i8, i16, i32 or
\* i64 to bool gives true exactly when the integer is not 0, as boolComparison does.
C5_IntToBoolIsNonZero ==
    (Done("arithmeticConversion") /\ args.typeA \in {"i8", "i16", "i32", "i64"}
        /\ args.typeB = "i1") =>
        /\ ret.status = "ok"
        /\ ret.val = Bool(args.a.bits # {})
        /\ ret.val = boolComparison(args.a).val

\* C6: casting an i8, i16 or i32 to a wider integer type keeps its signed value
\* (the low bits and the sign), and casting bool to an integer or floating point
\* type gives 0 for false and 1 (1.0) for true.
C6_WideningPreservesValue ==
    (Done("arithmeticConversion") /\ DistinctScalarArgs /\ isIntegerTy(args.typeA)) =>
        LET from == BitWidth(args.typeA)
            to == BitWidth(args.typeB)
        IN  /\ (from > 1 /\ to > from) =>
                  /\ ret.status = "ok"
                  /\ ret.val.kind = "int"
                  /\ ret.val.type = args.typeB
                  /\ ret.val.bits \cap (0..(from - 1)) = args.a.bits
                  /\ (to - 1) \in ret.val.bits <=> (from - 1) \in args.a.bits
                  /\ SVal(ret.val.bits, to) = SVal(args.a.bits, from)
            /\ (from = 1 /\ isIntegerTy(args.typeB)) =>
                  /\ ret.status = "ok"
                  /\ ret.val = IntV(args.typeB, args.a.bits)
                  /\ SVal(ret.val.bits, to) = B2N(args.a.bits # {})
            /\ (from = 1 /\ isFloatingPointTy(args.typeB)) =>
                  /\ ret.status = "ok"
                  /\ ret.val = NumV(args.typeB, B2N(args.a.bits # {}), 1)

C6_Witness ==
    /\ Done("arithmeticConversion")
    /\ args.a = IntV("i8", {1, 2, 3, 4, 5, 6, 7})
    /\ args.typeB = "i64"
    /\ ret.val.bits = 1..63
    /\ SVal(ret.val.bits, 64) = 0 - 2

\* C7: boolComparison returns, for a floating point value, whether it is ordered
\* and not equal to 0.0 (false for NaN); for an integer of any width, whether it
\* is not 0; for a value that is no scalar it throws a type error.
C7_BoolComparison ==
    Done("boolComparison") =>
        IF isFloatingPointTy(args.typeA)
        THEN /\ ret.status = "ok"
             /\ ret.val = Bool(args.a.kind # "nan" /\ args.a.n # 0)
        ELSE IF isIntegerTy(args.typeA)
        THEN /\ ret.status = "ok"
             /\ ret.val = Bool(args.a.bits # {})
        ELSE /\ ret.status = "throw"
             /\ ret.exc = "LLVMTypeError"

C7_Witness ==
    /\ Done("boolComparison")
    /\ args.a = NaNV("double")
    /\ ret.val = Bool(FALSE)

FloatOperands ==
    /\ isFloatingPointTy(args.typeA)
    /\ args.typeA = args.typeB

\* C8, as the specification states it: binaryOperator with a logical or a bitwise
\* operator on floating point operands throws a binary operation error.
C8_BinaryOperatorThrows ==
    (Done("binaryOperator") /\ FloatOperands
        /\ args.token \in LogicalTokens \cup BitwiseTokens) =>
        /\ ret.status = "throw"
        /\ ret.exc = "LLVMBinaryOperationError"

\* C8, amended: llvmBinaryConversion asked for a logical or a bitwise operator on
\* a floating point type throws a binary operation error; binaryOperator with
\* such an operator on two floating point operands of one type does not: it
\* returns the result of the integer instruction on the converted operands.
C8_FloatLogicalBitwise ==
    /\ (Done("llvmBinaryConversion") /\ isFloatingPointTy(args.typeA)
          /\ args.token \in LogicalTokens \cup BitwiseTokens) =>
          /\ ret.status = "throw"
          /\ ret.exc = "LLVMBinaryOperationError"
    /\ (Done("binaryOperator") /\ FloatOperands
          /\ args.token \in LogicalTokens \cup BitwiseTokens) =>
          /\ ret.status = "ok"
          /\ ret.type = IF args.token \in LogicalTokens THEN "i1" ELSE "i64"
          /\ ret.code[Len(ret.code)].create \in {"CreateAnd", "CreateOr", "CreateXor"}

C8_Witness ==
    /\ Done("llvmBinaryConversion")
    /\ args.typeA = "float"
    /\ args.token = "AND"
    /\ ret.status = "throw"
    /\ ret.exc = "LLVMBinaryOperationError"

\* the i64 a floating point sample is converted to (round toward zero)
ToI64(v) == ToBits(TruncToZero(v.n, v.d), BitWidth("i64"))

\* the bitwise operation of a token on two patterns
BitwiseOf(token, x, y) ==
    CASE token = "BITAND" -> x \cap y
      [] token = "BITOR" -> x \cup y
      [] token = "BITXOR" -> (x \cup y) \ (x \cap y)

\* C9: binaryOperator with a bitwise operator and two floating point operands of
\* one type casts both to i64 (rhs first), performs the integer operation and
\* returns its result, and sets the warnings string it is given to the implicit
\* cast message; every other call leaves the warnings string as it is.
C9_BitwiseFloat ==
    [][(pc = "idle" /\ pc' = "done") =>
          IF op' = "binaryOperator" /\ args'.token \in BitwiseTokens
             /\ isFloatingPointTy(args'.typeA) /\ args'.typeA = args'.typeB
          THEN /\ ret'.status = "ok"
               /\ ret'.type = "i64"
               /\ Len(ret'.code) = 3
               /\ ret'.code[1].create = "CreateFPToSI" /\ ret'.code[1].x = args'.b
               /\ ret'.code[2].create = "CreateFPToSI" /\ ret'.code[2].x = args'.a
               /\ ret'.code[3].x = ret'.code[2].result
               /\ ret'.code[3].y = ret'.code[1].result
               /\ ret'.code[3].result = ret'.val
               /\ (args'.a.kind = "num" /\ args'.b.kind = "num") =>
                     ret'.val = IntV("i64", BitwiseOf(args'.token, ToI64(args'.a),
                                                      ToI64(args'.b)))
               /\ warnings' = IF args'.warningsGiven THEN ImplicitCastWarning ELSE warnings
          ELSE warnings' = warnings]_vars

C9_Witness ==
    /\ Done("binaryOperator")
    /\ args.token = "BITXOR"
    /\ args.a = NumV("float", 1, 1)
    /\ args.b = NumV("float", 0 - 1, 1)
    /\ args.warningsGiven
    /\ ret.val = IntV("i64", 1..63)
    /\ warnings = ImplicitCastWarning

\* C10: for operands of one scalar type the result of binaryOperator has type
\* bool for a comparison token and for a logical token, and the operands' type
\* for an arithmetic token.
C10_ResultType ==
    (Done("binaryOperator") /\ ScalarArgs /\ args.typeA = args.typeB) =>
        /\ args.token \in RelationalTokens \cup LogicalTokens =>
              /\ ret.status = "ok"
              /\ ret.type = "i1"
              /\ ret.val.type = "i1"
        /\ args.token \in ArithmeticTokens =>
              /\ ret.status = "ok"
              /\ ret.type = args.typeA
              /\ ret.val.type = args.typeA

C10_Witness ==
    /\ Done("binaryOperator")
    /\ args.token = "AND"
    /\ args.a = IntV("i32", {1})
    /\ args.b = IntV("i32", {0})
    /\ ret.type = "i1"
    /\ ret.val = Bool(TRUE)

IntOperands ==
    /\ isIntegerTy(args.typeA)
    /\ args.typeA = args.typeB
    /\ args.a.kind = "int"
    /\ args.b.kind = "int"

\* the quotient and the remainder are defined: the divisor is not 0 and the
\* division is not the least integer by -1
DivisionDefined ==
    LET w == BitWidth(args.typeA)
    IN  args.b.bits # {} /\ ~(args.a.bits = IntMin(w) /\ args.b.bits = 0..(w - 1))

\* x / y rounded toward zero, y # 0
TruncQuotient(x, y) ==
    IF (x < 0) = (y < 0) THEN Abs(x) \div Abs(y) ELSE 0 - (Abs(x) \div Abs(y))

\* SVal gives the value of pattern x of width w exactly
Exact(x, w) == SVal(x, w) \notin {HugePos, HugeNeg}

\* C11: on integer operands of every width division and modulo are signed: the
\* quotient is rounded toward zero and the remainder has the sign of the
\* dividend (dividend = quotient * divisor + remainder, |remainder| < |divisor|);
\* <, >, <= and >= compare the operands as signed integers.
C11_SignedIntegerOperations ==
    (Done("binaryOperator") /\ IntOperands) =>
        LET w == BitWidth(args.typeA)
            x == args.a.bits
            y == args.b.bits
            sx == SVal(x, w)
            sy == SVal(y, w)
            exact == Exact(x, w) /\ Exact(y, w)
            less == IF (w - 1 \in x) # (w - 1 \in y) THEN w - 1 \in x
                    ELSE x # y /\ sx < sy
            r == IF args.token = "MODULO" THEN ret.val.bits
                 ELSE SubBits(x, MulBits(ret.val.bits, y, w), w)
        IN  /\ (args.token \in {"DIVIDE", "MODULO"} /\ DivisionDefined) =>
                  /\ ret.status = "ok"
                  /\ ret.val.kind = "int"
                  /\ ret.val.type = args.typeA
                  /\ r # {} => ((w - 1 \in r) <=> (w - 1 \in x))
                  /\ ULess(MagBits(r, w), MagBits(y, w))
                  /\ args.token = "MODULO" =>
                        \E q \in {SDivBits(x, y, w)} : AddBits(MulBits(q, y, w), r, w) = x
                  /\ (exact /\ args.token = "DIVIDE") =>
                        ret.val.bits = ToBits(TruncQuotient(sx, sy), w)
                  /\ (exact /\ args.token = "MODULO") =>
                        ret.val.bits = ToBits(sx - TruncQuotient(sx, sy) * sy, w)
            /\ (exact \/ x = y \/ (w - 1 \in x) # (w - 1 \in y) \/ Exact(x, w) # Exact(y, w)) =>
                  /\ args.token = "LESSTHAN" => ret.val = Bool(less)
                  /\ args.token = "MORETHAN" => ret.val = Bool(~less /\ x # y)
                  /\ args.token = "LESSTHANOREQUAL" => ret.val = Bool(less \/ x = y)
                  /\ args.token = "MORETHANOREQUAL" => ret.val = Bool(~less)

C11_Witness ==
    /\ Done("binaryOperator")
    /\ args.token = "MODULO"
    /\ args.a = IntV("i64", (0..63) \ {0})
    /\ args.b = IntV("i64", IntMax(64))
    /\ ret.val = IntV("i64", (0..63) \ {0})

\* C12: every floating point comparison binaryOperator makes (==, !=, <, >, <=,
\* >=) is an ordered one: with a NaN operand its result is false, also for !=,
\* and without one it is the comparison of the two numbers.
C12_OrderedComparisons ==
    (Done("binaryOperator") /\ FloatOperands /\ args.token \in RelationalTokens) =>
        LET x == args.a
            y == args.b
            nan == x.kind = "nan" \/ y.kind = "nan"
            lt == x.n * y.d < y.n * x.d
            eq == x.n * y.d = y.n * x.d
        IN  /\ ret.status = "ok"
            /\ Len(ret.code) = 1
            /\ ret.code[1].create \in
                  {"CreateFCmpOEQ", "CreateFCmpONE", "CreateFCmpOGT", "CreateFCmpOLT",
                   "CreateFCmpOGE", "CreateFCmpOLE"}
            /\ nan => ret.val = Bool(FALSE)
            /\ ~nan =>
                  ret.val = Bool(CASE args.token = "EQUALSEQUALS" -> eq
                                   [] args.token = "NOTEQUALS" -> ~eq
                                   [] args.token = "LESSTHAN" -> lt
                                   [] args.token = "MORETHAN" -> ~lt /\ ~eq
                                   [] args.token = "LESSTHANOREQUAL" -> lt \/ eq
                                   [] args.token = "MORETHANOREQUAL" -> ~lt)

C12_Witness ==
    /\ Done("binaryOperator")
    /\ args.token = "NOTEQUALS"
    /\ args.a = NaNV("float")
    /\ args.b = NumV("float", 1, 1)
    /\ ret.val = Bool(FALSE)

\* the low k bits of pattern x, as a number
LowBits(x, k) == SumPow2(x \cap (0..(k - 1)))

\* the integer the token's operation gives on the integers a and b
TrueResult(token, a, b) ==
    CASE token = "PLUS" -> a + b
      [] token = "MINUS" -> a - b
      [] token = "MULTIPLY" -> a * b

\* the results of +, - and * on the operands of an addition, subtraction or
\* multiplication of integers are the true results modulo 2^w: exactly so
\* where SVal tells the operands' values, in their low byte for all operands,
\* and at the extremes of the width
WrapsAround ==
    LET w == BitWidth(args.typeA)
        k == IF w < 8 THEN w ELSE 8
        x == args.a.bits
        y == args.b.bits
        all == 0..(w - 1)
    IN  /\ ret.status = "ok"
        /\ ret.val.kind = "int"
        /\ ret.val.type = args.typeA
        /\ (Exact(x, w) /\ Exact(y, w)) =>
              ret.val.bits = ToBits(TrueResult(args.token, SVal(x, w), SVal(y, w)), w)
        /\ ret.val.bits \cap (0..(k - 1))
              = ToBits(TrueResult(args.token, LowBits(x, k), LowBits(y, k)), k)
        /\ (w > 1 /\ args.token = "PLUS") =>
              /\ (x = IntMax(w) /\ y = {0}) => ret.val.bits = IntMin(w)
              /\ (x = IntMax(w) /\ y = IntMax(w)) => ret.val.bits = all \ {0}
              /\ (x = IntMin(w) /\ y = IntMin(w)) => ret.val.bits = {}
              /\ (x = IntMin(w) /\ y = all) => ret.val.bits = IntMax(w)
        /\ (w > 1 /\ args.token = "MINUS") =>
              /\ (x = IntMin(w) /\ y = {0}) => ret.val.bits = IntMax(w)
              /\ (x = IntMax(w) /\ y = all) => ret.val.bits = IntMin(w)
              /\ (x = IntMin(w) /\ y = IntMax(w)) => ret.val.bits = {0}
              /\ (x = IntMax(w) /\ y = IntMin(w)) => ret.val.bits = all
        /\ (w > 1 /\ args.token = "MULTIPLY") =>
              /\ (x = IntMax(w) /\ y = IntMax(w)) => ret.val.bits = {0}
              /\ (x = IntMin(w) /\ y = IntMin(w)) => ret.val.bits = {}
              /\ (x = IntMin(w) /\ y = all) => ret.val.bits = IntMin(w)
              /\ (x = IntMax(w) /\ y = all) => ret.val.bits = IntMin(w) \cup {0}
              /\ (w > 2 /\ x = IntMax(w) /\ y = {1}) => ret.val.bits = all \ {0}

\* C13, as the specification states it: +, -, * and / on integers never give an
\* undefined or poison value when the true result overflows the width (the
\* divisor not 0): the result is the true result modulo 2^w, so the least
\* integer of i8, i16, i32 or i64 divided by -1 is the least integer.
C13_OverflowWrapsAlways ==
    (Done("binaryOperator") /\ IntOperands) =>
        /\ args.token \in {"PLUS", "MINUS", "MULTIPLY"} => WrapsAround
        /\ (args.token = "DIVIDE" /\ args.b.bits # {} /\ args.typeA # "i1") =>
              /\ ret.status = "ok"
              /\ ret.val.kind # "poison"
              /\ ~DivisionDefined => ret.val.bits = IntMin(BitWidth(args.typeA))

\* C13, amended: integer +, - and * carry no no-wrap flags, so their results on
\* overflow are the true results modulo 2^w and never poison; integer division
\* is not marked exact, so a quotient that is not whole is the quotient rounded
\* toward zero and not poison; the division of the least integer by -1 (its
\* only overflow) and the division by 0 stay undefined.
C13_OverflowWraps ==
    (Done("binaryOperator") /\ IntOperands) =>
        /\ args.token \in {"PLUS", "MINUS", "MULTIPLY"} => WrapsAround
        /\ args.token = "DIVIDE" =>
              LET w == BitWidth(args.typeA)
              IN  /\ ret.status = "ok"
                  /\ ret.code[1].create = "CreateSDiv"
                  /\ DivisionDefined <=> ret.val.kind = "int"
                  /\ ~DivisionDefined <=> ret.val.kind = "poison"
                  /\ (DivisionDefined /\ Exact(args.a.bits, w) /\ Exact(args.b.bits, w)) =>
                        ret.val.bits = ToBits(TruncQuotient(SVal(args.a.bits, w),
                                                            SVal(args.b.bits, w)), w)

C13_Witness ==
    /\ Done("binaryOperator")
    /\ args.token = "PLUS"
    /\ args.a = IntV("i32", IntMax(32))
    /\ args.b = IntV("i32", {0})
    /\ ret.val = IntV("i32", IntMin(32))

\* C14: when the source element type is the target element type, arrayCast
\* returns the pointer it was given and appends no instruction (no allocation,
\* load, cast or store), and the arrays are as they were; arithmeticConversion
\* of a scalar value that has the target type returns the value and appends no
\* instruction.
C14_SameTypeIsIdentity ==
    /\ (Done("arrayCast") /\ args.typeA = args.typeB) =>
          /\ ret.status = "ok"
          /\ ret.val = args.a
          /\ ret.code = <<>>
          /\ mem = given.mem
    /\ (Done("arithmeticConversion") /\ ScalarArgs /\ args.typeA = args.typeB) =>
          /\ ret.status = "ok"
          /\ ret.val = args.a
          /\ ret.code = <<>>

C14_Witness ==
    /\ Done("arrayCast")
    /\ args.typeA = "float"
    /\ args.typeB = "float"
    /\ Len(given.mem[1].elems) = MaxLen
    /\ ret.val = PtrV(1)
    /\ mem = given.mem

\* the instructions of code that f created
Created(code, f) == {k \in 1..Len(code) : code[k].create = f}

\* C15: when the scalar source and target element types differ, arrayCast
\* allocates one new array of the target element type with as many elements as
\* the source, stores into its element i the cast of the source's element i for
\* every i, returns a pointer to it and stores nothing into the source array.
C15_ArrayCastCopies ==
    (Done("arrayCast") /\ DistinctScalarArgs) =>
        LET source == given.mem[1]
            n == Len(source.elems)
        IN  /\ ret.status = "ok"
            /\ Len(mem) = 2
            /\ ret.val = PtrV(2)
            /\ Cardinality(Created(ret.code, "CreateAlloca")) = 1
            /\ mem[1] = source
            /\ mem[2].type = args.typeB
            /\ Len(mem[2].elems) = n
            /\ \A i \in 1..n :
                  mem[2].elems[i]
                      = ApplyCast(selectCast(args.typeA, args.typeB), source.elems[i],
                                  args.typeB)
            /\ Cardinality(Created(ret.code, "CreateStore")) = n
            /\ \A k \in Created(ret.code, "CreateStore") :
                  ret.code[k].y.n = 2 /\ ret.code[k].y.d \in 0..(n - 1)
            /\ \A i \in 1..n : mem[2].elems[i].type = args.typeB

C15_Witness ==
    /\ Done("arrayCast")
    /\ args.typeA = "double"
    /\ args.typeB = "i32"
    /\ given.mem[1].elems = <<NumV("double", 0 - 3, 2), NumV("double", 0, 1)>>
    /\ mem[2].elems = <<IntV("i32", ToBits(0 - 1, 32)), IntV("i32", {})>>
    /\ mem[1] = given.mem[1]

\* the call was given three values of one scalar type
SameTypeTriple ==
    /\ Len(given.values) = 3
    /\ isScalarType(given.values[1].type)
    /\ \A i \in 1..3 : given.values[i].type = given.values[1].type

\* no instruction of code is a conversion
NoConversion(code) == \A k \in 1..Len(code) : code[k].create \notin CastFunctions

\* C16: three scalars x, y, z of one type packed by array3Pack are the elements
\* 0, 1, 2 of the new array as they were given; arrayUnpack loading the elements
\* of that array yields <<x, y, z>>, and the pointers arrayUnpack (not loading)
\* and array3Unpack yield point to x, y and z in this order; no conversion
\* instruction is created on the way.
C16_RoundTripPack ==
    /\ (Done("array3Pack") /\ SameTypeTriple) =>
          /\ ret.status = "ok"
          /\ ret.val = PtrV(Len(mem))
          /\ mem[ret.val.n] = ArrayOf(given.values[1].type, given.values)
          /\ NoConversion(ret.code)
    /\ (Done("arrayUnpack") /\ SameTypeTriple /\ args.b = Bool(TRUE)) =>
          /\ ret.status = "ok"
          /\ values = given.values
          /\ NoConversion(ret.code)
    /\ (((Done("arrayUnpack") /\ args.b = Bool(FALSE)) \/ Done("array3Unpack"))
          /\ SameTypeTriple) =>
          /\ ret.status = "ok"
          /\ values = [i \in 1..3 |-> ElementPtr(args.a.n, i - 1)]
          /\ \A i \in 1..3 : Loaded(mem, values[i]) = given.values[i]
          /\ NoConversion(ret.code)

C16_Witness ==
    /\ Done("arrayUnpack")
    /\ args.b = Bool(TRUE)
    /\ given.values = <<NumV("float", 0 - 3, 2), NaNV("float"), NumV("float", 0, 1)>>
    /\ values = given.values
    /\ Cardinality(Created(ret.code, "CreateLoad")) = 3

\* the call was given a vector of scalar values
ScalarVector ==
    Len(given.values) > 0 /\ \A i \in 1..Len(given.values) : isScalarType(given.values[i].type)

\* the type of highest precedence among the values the call was given
HighestGiven ==
    CHOOSE t \in {given.values[i].type : i \in 1..Len(given.values)} :
        \A i \in 1..Len(given.values) : Rank(given.values[i].type) <= Rank(t)

\* value by itself converted to type t
ConvertedTo(value, t) ==
    IF value.type = t THEN value ELSE ApplyCast(selectCast(value.type, t), value, t)

\* C17: arrayPackCast of a non-empty vector of scalar values returns a pointer
\* to a new array with as many elements as the vector has values, its element
\* type the type of highest precedence among the values; element i is value i
\* converted to that type, and so is entry i of the vector after the call.
C17_ArrayPackCast ==
    (Done("arrayPackCast") /\ ScalarVector) =>
        /\ ret.status = "ok"
        /\ ret.val = PtrV(1)
        /\ Len(mem) = 1
        /\ mem[1].type = HighestGiven
        /\ mem[1].elems = [i \in 1..Len(given.values) |->
                               ConvertedTo(given.values[i], HighestGiven)]
        /\ values = mem[1].elems

C17_Witness ==
    /\ Done("arrayPackCast")
    /\ given.values = <<IntV("i16", ToBits(0 - 2, 16)), NumV("float", 0 - 3, 2)>>
    /\ mem[1] = ArrayOf("float", <<NumV("float", 0 - 2, 1), NumV("float", 0 - 3, 2)>>)
    /\ values = mem[1].elems

\* the scalar types among the values the call was given
ScalarTypesGiven ==
    {given.values[i].type : i \in {j \in 1..Len(given.values) :
                                      isScalarType(given.values[j].type)}}

\* C18: arithmeticConversion(values, builder) returns with every scalar value of
\* the vector of the type of highest precedence among the scalar values it was
\* given, whatever their order, and with every other value as it was.
C18_VectorToHighest ==
    (Done("arithmeticConversionHighest") /\ ScalarTypesGiven # {}) =>
        /\ ret.status = "ok"
        /\ Len(values) = Len(given.values)
        /\ \A i \in 1..Len(given.values) :
              IF isScalarType(given.values[i].type)
              THEN \A t \in ScalarTypesGiven : Rank(t) <= Rank(values[i].type)
              ELSE values[i] = given.values[i]

\* C19: llvmStringToValue of a string of n chars allocates n + 1 chars once,
\* stores char i of the string into element i for every i < n and the null
\* char into element n, writes through no pointer beyond element n, and returns
\* the pointer to the allocation.
C19_StringToValue ==
    Done("llvmStringToValue") =>
        LET n == Len(given.values)
        IN  /\ ret.status = "ok"
            /\ Len(mem) = 1
            /\ ret.val = PtrV(1)
            /\ mem[1].type = "i8"
            /\ Len(mem[1].elems) = n + 1
            /\ \A k \in Created(ret.code, "CreateAlloca") : ret.code[k].x = Index(n + 1)
            /\ Cardinality(Created(ret.code, "CreateAlloca")) = 1
            /\ \A i \in 1..n : mem[1].elems[i] = given.values[i]
            /\ mem[1].elems[n + 1] = IntV("i8", {})
            /\ Cardinality(Created(ret.code, "CreateStore")) = n + 1
            /\ \A k \in Created(ret.code, "CreateStore") :
                  ret.code[k].y.n = 1 /\ ret.code[k].y.d \in 0..n

C19_Witness ==
    /\ Done("llvmStringToValue")
    /\ args.b = Bool(TRUE)
    /\ given.values = <<IntV("i8", ToBits(200, 8)), IntV("i8", ToBits(65, 8))>>
    /\ mem[1].elems = <<IntV("i8", {3, 6, 7}), IntV("i8", {0, 6}), IntV("i8", {})>>

\* the call foo(1, 2) of the specification's scenario 5 and its signatures
FooArguments == <<"i32", "i32">>
FooSignatures == << <<"f32", "i32">>, <<"f64", "i32">> >>

\* the signatures that remain after steps 1 and 3
Remaining == {k \in 1..Len(given.mem) : remains(given.mem[k], given.values)}

\* the signature selected has the lexicographically smallest cost vector, among
\* those the smallest sum, among those it is the first declared
SelectedIsLeast ==
    /\ ret.status = "ok"
    /\ Len(values) = 1
    /\ values[1] \in Remaining
    /\ \A k \in Remaining :
         /\ ~lexLess(mem[k], mem[values[1]])
         /\ mem[k] = mem[values[1]] =>
              /\ costSum(mem[k]) >= costSum(mem[values[1]])
              /\ costSum(mem[k]) = costSum(mem[values[1]]) => values[1] <= k

C23_MismatchThrowsFirst ==
    [][(pc = "idle" /\ pc' = "done" /\ op' = "binaryOperator"
          /\ args'.a.type # args'.b.type) =>
          /\ ret'.status = "throw"
          /\ ret'.exc = "LLVMTypeError"
          /\ ret'.code = <<>>
          /\ ret'.val = NoValue
          /\ warnings' = warnings]_vars

C23_Witness ==
    /\ Done("binaryOperator")
    /\ args.a.type = "float"
    /\ args.b.type = "i32"
    /\ args.token = "BITAND"
    /\ args.warningsGiven
    /\ ret.exc = "LLVMTypeError"
    /\ warnings = ""

\* C24: llvmArithmeticConversion throws LLVMTypeError when source and target are
\* the same type (there is no identity conversion), and its callers never call
\* it with the same type twice: arithmeticConversion of a scalar value, arrayCast
\* and arithmeticConversion of a vector return what they were given, with no
\* instruction emitted, when the scalar types are equal, and none of them ends
\* with LLVMTypeError on scalar types.
C24_NoIdentityConversion ==
    /\ (Done("llvmArithmeticConversion") /\ args.typeA = args.typeB) =>
          (ret.status = "throw" /\ ret.exc = "LLVMTypeError")
    /\ (Done("arithmeticConversion") /\ ScalarArgs) =>
          /\ ret.exc # "LLVMTypeError"
          /\ args.typeA = args.typeB => (ret.val = args.a /\ ret.code = <<>>)
    /\ (Done("arrayCast") /\ isScalarType(args.typeA) /\ isScalarType(args.typeB)) =>
          /\ ret.exc # "LLVMTypeError"
          /\ args.typeA = args.typeB => (ret.val = args.a /\ ret.code = <<>>)
    /\ (Done("arithmeticConversionHighest") /\ ScalarVector) =>
          /\ ret.exc # "LLVMTypeError"
          /\ given.values[1].type = HighestGiven =>
                (ret.status = "ok" /\ ret.code = <<>> /\ values = given.values)

C24_Witness ==
    /\ Done("arithmeticConversionHighest")
    /\ Len(given.values) = MaxLen
    /\ given.values[1].type = "i32"
    /\ given.values[MaxLen].type = "i8"
    /\ HighestGiven = "i32"
    /\ ret.status = "ok"
    /\ ret.code = <<>>
    /\ values = given.values

\* the array of flags p points to has false exactly at the indices of called
FlagsAre(p, called) ==
    /\ p # Null <=> called # {}
    /\ p # Null =>
          /\ Len(p[1]) = LeafSize
          /\ \A i \in Offsets : p[1][i + 1] = (i \notin called)

\* C25: after any sequence of flagVoxelTopology and flagVoxelValue calls with
\* indices of the leaf, hasTopologyFlags() (hasValueFlags()) is true iff
\* flagVoxelTopology (flagVoxelValue) has been called, and the array, when there
\* is one, holds false at i iff the function of its kind has been called with i;
\* so a call of one kind leaves the array of the other kind, and every other
\* member, as it was.
C25_DiagnosticFlags ==
    stage = "flagging" =>
        /\ hasTopologyFlags(diagnostic) <=> flagCalls.topology # {}
        /\ hasValueFlags(diagnostic) <=> flagCalls.value # {}
        /\ FlagsAre(diagnostic.mVoxelTopologyFlags, flagCalls.topology)
        /\ FlagsAre(diagnostic.mVoxelValueFlags, flagCalls.value)
        /\ diagnostic.mValid /\ diagnostic.mBufferSizes /\ diagnostic.mDescriptorsMatch
        /\ diagnostic.mAttributeArrayData = Null

C25_Witness ==
    /\ stage = "flagging"
    /\ flagCalls.topology = Offsets
    /\ flagCalls.value = {LeafSize - 1}
    /\ diagnostic.mVoxelTopologyFlags = Ptr([n \in 1..LeafSize |-> FALSE])
    /\ diagnostic.mVoxelValueFlags = Ptr([n \in 1..LeafSize |-> n # LeafSize])

Called(fn) == stage = "called" /\ call.fn = fn

\* the offsets of the mask whose active states differ in the two leaves
TopologyDiffers ==
    {n \in call.mask : (n \in call.firstLeaf.mask) # (n \in call.secondLeaf.mask)}

\* the offsets of the mask whose values are further apart than the tolerance
ValueDiffers ==
    {n \in call.mask :
        \/ call.firstLeaf.buffer[n + 1] - call.secondLeaf.buffer[n + 1] > call.tolerance
        \/ call.secondLeaf.buffer[n + 1] - call.firstLeaf.buffer[n + 1] > call.tolerance}

\* C26: compareLeafBuffers, if the two buffers differ in size, sets mBufferSizes
\* to false, flags no voxel and returns false; otherwise it flags for topology
\* exactly the offsets of the mask at which one leaf is active and the other is
\* not, if mCheckActiveStates is set, and for value exactly the offsets of the
\* mask at which the values are not approximately equal, if mCheckBufferValues
\* is set, no offset outside the mask, and returns true iff it flagged none.
C26_CompareLeafBuffers ==
    Called("compareLeafBuffers") =>
        IF Len(call.firstLeaf.buffer) # Len(call.secondLeaf.buffer)
        THEN /\ diagnostic = [DiagnosticData EXCEPT !.mBufferSizes = FALSE]
             /\ ~call.returned
        ELSE /\ diagnostic.mBufferSizes
             /\ FlagsAre(diagnostic.mVoxelTopologyFlags,
                         IF call.settings.mCheckActiveStates THEN TopologyDiffers ELSE {})
             /\ FlagsAre(diagnostic.mVoxelValueFlags,
                         IF call.settings.mCheckBufferValues THEN ValueDiffers ELSE {})
             /\ call.returned <=> (~hasTopologyFlags(diagnostic) /\ ~hasValueFlags(diagnostic))

C26_Witness ==
    /\ Called("compareLeafBuffers")
    /\ call.settings.mCheckActiveStates
    /\ call.settings.mCheckBufferValues
    /\ call.mask = {0}
    /\ call.tolerance = 0
    /\ call.firstLeaf = Leaf(Offsets, [n \in 1..LeafSize |-> 1])
    /\ call.secondLeaf = Leaf({}, [n \in 1..LeafSize |-> 0])
    /\ diagnostic.mVoxelTopologyFlags = Ptr([n \in 1..LeafSize |-> n # 1])
    /\ diagnostic.mVoxelValueFlags = Ptr([n \in 1..LeafSize |-> n # 1])
    /\ ~call.returned

\* the task with the given index of a call of compareGrids has returned
Returned(index) ==
    /\ call.fn = "compareGrids"
    /\ index \in 1..Len(tasks)
    /\ tasks[index].at = "done"

\* both grids have a leaf where the task with the given index compares
BothLeaves(index) == FirstLeafNode(index) # Null /\ SecondLeafNode(index) # Null

\* what compareLeafBuffers gives the task with the given index, and what
\* compareAttributes gives after it
BuffersOf(index) ==
    compareLeafBuffers(FirstLeafNode(index)[1], SecondLeafNode(index)[1],
                       call.leaves[index].valueMask, DiagnosticData, call.settings,
                       call.tolerance)

AttributesOf(index) ==
    compareAttributes(FirstLeafNode(index)[1], SecondLeafNode(index)[1],
                      BuffersOf(index).data, call.settings, call.beyond)

\* C27: after CompareLeafNodes has run for the mask leaf with index i, data[i] is
\* null exactly when neither grid has a leaf at the origin, or both have one and
\* compareLeafBuffers and compareAttributes both returned true; when exactly one
\* grid has the leaf, data[i] is a record that has only mValid = false; and
\* compareAttributes is run only when compareLeafBuffers returned true: when it
\* returned false the record is the one compareLeafBuffers left, and a task
\* throws (compareAttributes does) only after compareLeafBuffers returned true.
C27_CompareLeafNodes ==
    call.fn = "compareGrids" =>
        \A i \in 1..Len(tasks) :
            /\ tasks[i].at = "done" =>
                 /\ data[i] = Null <=>
                      \/ FirstLeafNode(i) = Null /\ SecondLeafNode(i) = Null
                      \/ /\ BothLeaves(i)
                         /\ BuffersOf(i).returned
                         /\ AttributesOf(i).exc = ""
                         /\ AttributesOf(i).returned
                 /\ ((FirstLeafNode(i) = Null) # (SecondLeafNode(i) = Null)) =>
                      data[i] = Ptr([DiagnosticData EXCEPT !.mValid = FALSE])
                 /\ (BothLeaves(i) /\ ~BuffersOf(i).returned) =>
                      /\ data[i] = Ptr(BuffersOf(i).data)
                      /\ data[i][1].mDescriptorsMatch
                      /\ ~hasDiagnosticArrayData(data[i][1])
                 /\ (BothLeaves(i) /\ BuffersOf(i).returned /\ ~AttributesOf(i).returned) =>
                      data[i] = Ptr(AttributesOf(i).data)
            /\ tasks[i].at = "thrown" =>
                 /\ BothLeaves(i)
                 /\ BuffersOf(i).returned
                 /\ AttributesOf(i).exc = "std::runtime_error"

\* the buffers differ and the type of the attribute is one compareAttributes
\* throws for: the task has returned with the record of compareLeafBuffers
C27_Witness ==
    \E i \in 1..Len(tasks) :
        /\ Returned(i)
        /\ BothLeaves(i)
        /\ "attributes" \in DOMAIN FirstLeafNode(i)[1]
        /\ FirstLeafNode(i)[1].attributes["P"].type = "quats"
        /\ call.settings.mCheckArrayValues
        /\ ~BuffersOf(i).returned
        /\ data[i] # Null
        /\ hasValueFlags(data[i][1])
        /\ ~hasDiagnosticArrayData(data[i][1])

\* data[index] once the task with the given index has returned: what the
\* task computes from the two grids alone
ExpectedSlot(index) ==
    IF FirstLeafNode(index) = Null /\ SecondLeafNode(index) = Null THEN Null
    ELSE IF ~BothLeaves(index) THEN Ptr([DiagnosticData EXCEPT !.mValid = FALSE])
    ELSE IF BuffersOf(index).returned /\ AttributesOf(index).returned THEN Null
    ELSE IF BuffersOf(index).returned THEN Ptr(AttributesOf(index).data)
    ELSE Ptr(BuffersOf(index).data)

\* data[index] while the task with the given index is where it is
SlotAt(index) ==
    CASE tasks[index].at = "start" -> Null
      [] tasks[index].at = "new" -> Ptr(DiagnosticData)
      [] tasks[index].at = "equal" -> Ptr(AttributesOf(index).data)
      [] tasks[index].at = "thrown" -> Ptr(AttributesOf(index).data)
      [] tasks[index].at = "done" -> ExpectedSlot(index)

\* C28: in the parallel pass over the leaves of compareGrids every task writes
\* only its own slot data[index], and the indices of the leaves are distinct, so
\* that no two tasks write the same slot; whatever the other tasks have done,
\* data[index] is what its own task has made it, and the vector of diagnostics
\* and the result compareGrids returns are the ones computed from the grids,
\* the same under every interleaving of the tasks.
C28_SlotsAreDisjoint ==
    call.fn = "compareGrids" =>
        /\ Len(data) = Len(call.leaves)
        /\ Len(tasks) = Len(call.leaves)
        /\ \A i, j \in 1..Len(tasks) :
             i # j => /\ call.leaves[i].origin # call.leaves[j].origin
                      /\ tasks[i].wrote \cap tasks[j].wrote = {}
        /\ \A i \in 1..Len(tasks) :
             /\ tasks[i].wrote \subseteq {i}
             /\ data[i] = SlotAt(i)
        /\ (stage = "returned" /\ Len(tasks) > 0) =>
             /\ data = [i \in 1..Len(tasks) |-> ExpectedSlot(i)]
             /\ local.result = (local.result /\ \A i \in 1..Len(tasks) : ExpectedSlot(i) = Null)
             /\ local.flag = \A i \in 1..Len(tasks) : ExpectedSlot(i) = Null

\* the second task has returned, leaving a record, while the first one has
\* written its slot and not compared yet
C28_Witness ==
    /\ call.fn = "compareGrids"
    /\ stage = "foreach"
    /\ Len(tasks) = MaxLeaves
    /\ tasks[1] = Task("new", {1})
    /\ tasks[MaxLeaves] = Task("done", {MaxLeaves})
    /\ data[1] = Ptr(DiagnosticData)
    /\ data[MaxLeaves] = Ptr([DiagnosticData EXCEPT !.mValid = FALSE])

\* compareGrids has returned
GridsCompared == call.fn = "compareGrids" /\ stage = "returned"

\* both grids have no leaf node
NoLeaves == leafCount(call.firstGrid) = 0 /\ leafCount(call.secondGrid) = 0

\* C29: compareGrids returns true exactly when every enabled check passes: the
\* check of the transforms (when mCheckTransforms), and then, unless both grids
\* have no leaf node, in which case it returns at once, the check of the
\* topology structure (only when mCheckTopologyStructure is set and no mask grid
\* is given) and the comparison of the leaves (no leaf has a non-null
\* diagnostic); a check that failed is never reset by a later one that passes.
C29_CompareGridsResult ==
    GridsCompared =>
        /\ local.result <=>
             /\ call.settings.mCheckTransforms =>
                  call.firstGrid.transform = call.secondGrid.transform
             /\ ~NoLeaves =>
                  /\ (call.settings.mCheckTopologyStructure /\ call.maskGrid = Null) =>
                       hasSameTopology(call.firstGrid, call.secondGrid)
                  /\ \A i \in 1..Len(data) : data[i] = Null
        /\ NoLeaves => (data = <<>> /\ tasks = <<>>)
        /\ ~NoLeaves => \A i \in 1..Len(tasks) : tasks[i].at = "done"

\* the transforms differ while the topology structures and all leaves are the
\* same: the result stays false
C29_Witness ==
    /\ GridsCompared
    /\ call.settings.mCheckTransforms
    /\ call.settings.mCheckTopologyStructure
    /\ call.maskGrid = Null
    /\ call.firstGrid.transform # call.secondGrid.transform
    /\ hasSameTopology(call.firstGrid, call.secondGrid)
    /\ Len(data) > 0
    /\ \A i \in 1..Len(data) : data[i] = Null
    /\ local.flag
    /\ ~local.result

\* what a kernel makes of a leaf taken alone when it has been called for the
\* active voxels that are not in todo
LeafAfter(kernel, leaf, todo) ==
    VolumeLeaf(leaf.mask,
        [name \in DOMAIN leaf.arrays |->
            [n \in 1..LeafSize |->
                IF (n - 1) \in leaf.mask \ todo /\ name = Written(kernel)
                THEN RunKernel(kernel, [a \in Registered(kernel) |-> leaf.arrays[a][n]])[name]
                ELSE leaf.arrays[name][n]]])

\* a kernel pass is going on or is over
InPass == pass.stage \in {"parallel", "finished"}

\* C22: during a parallel kernel pass, under every interleaving of the leaf
\* tasks, the attribute arrays of a leaf are written only by the task of that
\* leaf, so that what the pass makes of a leaf L1 depends neither on another
\* leaf L2 nor on the order in which the leaves are worked on: at every moment
\* a leaf is what the kernel makes of it taken alone, for the voxels its own
\* task has got to, and equal leaves end as equal leaves wherever they are.
C22_LeafLocality ==
    InPass =>
        /\ \A o \in Origins :
             /\ workers[o].wrote \subseteq {<<o, n>> : n \in Offsets}
             /\ volume[o] = IF pass.given[o] = Null THEN Null
                            ELSE Ptr(LeafAfter(pass.kernel, pass.given[o][1], workers[o].todo))
        /\ \A o, p \in Origins : o # p => workers[o].wrote \cap workers[p].wrote = {}
        /\ pass.stage = "finished" =>
             \A o, p \in Origins :
                 /\ pass.given[o] # Null => volume[o] = Ptr(LeafAfter(pass.kernel, pass.given[o][1], {}))
                 /\ pass.given[o] = pass.given[p] => volume[o] = volume[p]

\* the task of the last leaf has called the kernel for all its voxels before the
\* task of the first leaf has called it for any
C22_Witness ==
    /\ pass.stage = "parallel"
    /\ pass.kernel = "increment"
    /\ pass.given[1] # Null
    /\ pass.given[MaxLeaves] # Null
    /\ workers[1] = Worker(Offsets, {})
    /\ workers[MaxLeaves] = Worker({}, {<<MaxLeaves, n>> : n \in Offsets})
    /\ volume[1] = pass.given[1]
    /\ volume[MaxLeaves] # pass.given[MaxLeaves]

====
